---- MODULE Spec2Model ----
(***************************************************************************)
(* A model of dcd's remote deployment engine: the SSH host-key trust       *)
(* decision and key probing (src/executor/ssh_executor.rs), the container  *)
(* health classification (src/deployer/docker_manager/mod.rs) and the      *)
(* deploy pipeline with its health-check retry loop                        *)
(* (src/deployer/service.rs).                                              *)
(***************************************************************************)
EXTENDS Integers, Sequences, FiniteSets, TLC

VARIABLES
    \* ---- Deployer::deploy / deploy_services (service.rs) ----
    pc,             \* position of the deploy flow
    nservices,      \* number of services the compose project defines
    attempts,       \* `attempts` of the health loop (service.rs:597)
    status,         \* the DeploymentStatus accumulator
    result,         \* what deploy returned: "none" while running
    ops,            \* remote operations issued by the step in progress (or the last one)
    events,         \* step events sent so far (StepStarted/Completed/Failed)
    health_events,  \* the events sent in the current iteration of the health loop
    last_status,    \* what get_services_status returned in the current iteration
    last_result,    \* what verify_services_healthy returned in the current iteration
    config,         \* the DeploymentConfig given to Deployer::new
    args,           \* the arguments of destroy: remove_volumes, remove_images, force
    dcd_exists,     \* whether project_dir/.env.dcd exists locally
    trace,          \* history: the steps deploy has run, each with its outcome
                    \* and the commands of it that failed in the transport
    polls,          \* history: calls of verify_services_healthy in the loop
    sleeps,         \* history: waits of HEALTH_CHECK_DELAY
    nFailed,        \* history: polls classified Failed
    nStarting,      \* history: polls classified Starting
    \* ---- FileSync::sync_files called again and again (sync/files.rs) ----
    sync_plan,      \* the SyncPlan of the calls
    local_fs,       \* the local files: path -> digest of the content
    remote_fs,      \* the remote files: path -> digest of the content, or "absent"
    sync_pos,       \* the pair of the plan the call in progress is at
    sync_status,    \* `status` of the call in progress: the FileSyncStatus
    sync_log,       \* history: what the call in progress did about each file
    sync_returns,   \* history: what the calls returned, in order
    \* ---- UfwManager::configure_ports called again and again (firewall/ufw.rs) ----
    fw_rules,       \* the ALLOW rules of the remote firewall
    fw_active,      \* whether the remote firewall is enabled
    fw_runs,        \* history: the calls of configure_ports, in order
    ssh_target,     \* the SshTarget of the session the calls are made in
    \* ---- Up::run and the UI task (cli/up.rs, cli/ui.rs) ----
    up_pc,          \* position of Up::run
    up_input,       \* the flags of the command and what deploy does in this run
    up_sent,        \* the number of calls of send_event that have returned
    send_failures,  \* the number of them that logged a failed send
    chan,           \* the events in the queue of the progress channel
    ui_pc,          \* position of the UI task
    ui_received,    \* history: the events the UI task has handled, in order
    up_result,      \* what Up::run returned: "none" while running
    \* ---- SshClient::upload_file_internal (ssh_executor.rs) ----
    sftp,           \* the `sftp` field of the client: 0 for None, else a session
    upload_pc,      \* position of each call of upload_file_internal
    sftp_created,   \* the number of SftpSession::new that have succeeded
    \* ---- SshClient::execute_command_internal (ssh_executor.rs) ----
    exec_pc,        \* position of execute_command_internal
    channel_msgs,   \* the messages the channel delivers before it closes
    exec_pos,       \* the number of them `channel.wait()` has returned
    output,         \* the CommandOutput being filled
    exec_result,    \* what the call returned: "none" while running
    \* ---- SshDockerManager::new called by the flows (service.rs) ----
    manager_files,  \* the compose and env files the flow gave to the manager
    \* ---- SshCommandExecutor::connect (ssh_executor.rs) ----
    ssh_pc,         \* position of connect
    known_hosts,    \* the lines of ~/.ssh/known_hosts
    addr,           \* the host the operator addressed
    key_path,       \* the explicit key of --identity, or "none"
    key_files,      \* which private-key files exist
    suppress_unknown_host_warning,
    target_host_str,\* the host the trust store is asked about
    trusted_keys,   \* the trust store load_known_hosts built
    key_index,      \* the next entry of potential_keys to try
    connection_errors, \* one error per key that failed, in order
    connections,    \* history: the connection attempts made, in order
    ssh_result      \* what connect returned: "none" while running

deployVars == <<pc, nservices, attempts, status, result, ops, events,
                health_events, last_status, last_result, config, args, dcd_exists,
                trace, polls, sleeps, nFailed, nStarting>>

sshVars == <<ssh_pc, known_hosts, addr, key_path, key_files,
             suppress_unknown_host_warning, target_host_str, trusted_keys,
             key_index, connection_errors, connections, ssh_result>>

syncVars == <<sync_plan, local_fs, remote_fs, sync_pos, sync_status, sync_log,
              sync_returns>>

fwVars == <<fw_rules, fw_active, fw_runs, ssh_target>>

uiVars == <<up_pc, up_input, up_sent, send_failures, chan, ui_pc, ui_received, up_result>>

sftpVars == <<sftp, upload_pc, sftp_created>>

execVars == <<exec_pc, channel_msgs, exec_pos, output, exec_result>>

mgrVars == <<manager_files>>

extVars == <<fwVars, uiVars, sftpVars, execVars, mgrVars>>

vars == <<deployVars, syncVars, sshVars, extVars>>

-----------------------------------------------------------------------------
(* Bounds of the model *)

\* the largest number of services a status query reports
MaxServices == 2

\* the largest number of local references of a project
MaxReferences == 3

\* the number of uploads made on one connection
MaxUploads == 3

\* the number of calls of FileSync::sync_files the sync flow makes
MaxSyncCalls == 2

\* the largest number of lines of the known-hosts file
MaxKnownHostsLines == 2

\* the largest number of messages a channel delivers before it closes
MaxChannelMsgs == 3

-----------------------------------------------------------------------------
(* Program constants *)

HEALTH_CHECK_RETRIES == 5
MAX_STARTING_ATTEMPTS == 15

\* the buffer size of the progress channel Up::run creates
PROGRESS_CHANNEL_CAPACITY == 32

-----------------------------------------------------------------------------
(* ServiceStatus records and the replies of the status query *)

ServiceNames == <<"web", "db", "cache", "proxy">>
ServiceStates == {"running", "exited"}
HealthStates == {"", "healthy", "starting", "unhealthy"}

\* the service lists of length k: the i-th service is ServiceNames[i]
ServiceListsOfLen(k) ==
    { [i \in 1..k |-> [service |-> ServiceNames[i],
                       state   |-> f[i][1],
                       health  |-> f[i][2]]] :
        f \in [1..k -> ServiceStates \X HealthStates] }

ServiceLists(n) == UNION { ServiceListsOfLen(k) : k \in 0..n }

\* One element of the stdout of `docker-compose ps --format json`: a JSON
\* object of a service, a blank line, or text that is no JSON.
ObjItem(s) == [tag |-> "obj", service |-> s.service, state |-> s.state,
               health |-> s.health]
BlankItem == [tag |-> "blank", service |-> "", state |-> "", health |-> ""]
GarbageItem == [tag |-> "garbage", service |-> "", state |-> "", health |-> ""]

ObjItems(list) == [i \in 1..Len(list) |-> ObjItem(list[i])]

\* stdout in the two forms compose versions emit: one JSON array, or one
\* JSON object per line
ArrayStdout(items) == [form |-> "array", items |-> items]
LinesStdout(items) == [form |-> "lines", items |-> items]

CommandReply(transport, exit_code, stdout) ==
    [transport |-> transport, exit_code |-> exit_code, stdout |-> stdout]

\* how the remote side answered a status query: by a transport error, a
\* nonzero exit status, or exit status 0
ReplyClass(reply) ==
    IF reply.transport # "ok" THEN "err"
    ELSE IF reply.exit_code # 0 THEN "nonzero" ELSE "ok"

\* what the remote side may answer to the status query of a project of n services
StatusReplies(n) ==
    { CommandReply("err", 0, LinesStdout(<<>>)),
      CommandReply("ok", 1, LinesStdout(<<>>)) }
    \cup UNION { { CommandReply("ok", 0, ArrayStdout(ObjItems(l))),
                   CommandReply("ok", 0, LinesStdout(ObjItems(l))),
                   CommandReply("ok", 0, LinesStdout(Append(ObjItems(l), BlankItem))),
                   CommandReply("ok", 0, LinesStdout(Append(ObjItems(l), GarbageItem))),
                   CommandReply("ok", 0, ArrayStdout(Append(ObjItems(l), GarbageItem))) } :
                 l \in ServiceLists(n) }

-----------------------------------------------------------------------------
(* docker_manager/mod.rs *)

is_running(s) == s.state = "running"

is_healthy(s) == is_running(s) /\ (s.health = "" \/ s.health = "healthy")

ItemService(it) == [service |-> it.service, state |-> it.state, health |-> it.health]

\* serde_json::from_str of the whole stdout: whitespace is skipped, any
\* element that is no object fails the parse
RECURSIVE ParseArray(_, _, _)
ParseArray(items, i, acc) ==
    IF i > Len(items) THEN [ok |-> TRUE, services |-> acc, err |-> ""]
    ELSE IF items[i].tag = "garbage"
         THEN [ok |-> FALSE, services |-> <<>>, err |-> "Output(JsonError)"]
    ELSE IF items[i].tag = "blank" THEN ParseArray(items, i + 1, acc)
    ELSE ParseArray(items, i + 1, Append(acc, ItemService(items[i])))

\* the line-delimited branch: empty lines are skipped, the first line that
\* does not parse ends the query with an error
RECURSIVE ParseLines(_, _, _)
ParseLines(items, i, acc) ==
    IF i > Len(items) THEN [ok |-> TRUE, services |-> acc, err |-> ""]
    ELSE IF items[i].tag = "blank" THEN ParseLines(items, i + 1, acc)
    ELSE IF items[i].tag = "garbage"
         THEN [ok |-> FALSE, services |-> <<>>, err |-> "Output(JsonError)"]
    ELSE ParseLines(items, i + 1, Append(acc, ItemService(items[i])))

get_services_status(reply) ==
    IF reply.transport # "ok"
    THEN [ok |-> FALSE, services |-> <<>>, err |-> "Executor"]
    ELSE IF reply.exit_code # 0
    THEN [ok |-> FALSE, services |-> <<>>, err |-> "CommandError(docker-compose ps)"]
    ELSE IF reply.stdout.form = "array"
    THEN ParseArray(reply.stdout.items, 1, <<>>)
    ELSE ParseLines(reply.stdout.items, 1, <<>>)

UnhealthyService(s) == [name |-> s.service, state |-> s.state, health |-> s.health]

\* the base definition of "healthy" the classification uses
is_technically_healthy(s) ==
    is_running(s) /\ (s.health = "" \/ s.health = "healthy")

\* a service that is not healthy is starting, not failed
is_starting(s) == is_running(s) /\ s.health = "starting"

\* the loop of verify_services_healthy over status.services
RECURSIVE Categorize(_, _, _, _)
Categorize(services, i, starting_services, failed_services) ==
    IF i > Len(services)
    THEN [starting |-> starting_services, failed |-> failed_services]
    ELSE LET s == services[i]
         IN IF ~is_technically_healthy(s)
            THEN IF is_starting(s)
                 THEN Categorize(services, i + 1,
                                 Append(starting_services, UnhealthyService(s)),
                                 failed_services)
                 ELSE Categorize(services, i + 1, starting_services,
                                 Append(failed_services, UnhealthyService(s)))
            ELSE Categorize(services, i + 1, starting_services, failed_services)

HealthResult(kind, list) == [ok |-> TRUE, kind |-> kind, list |-> list, err |-> ""]

\* variant: the starting services are listed before the failed ones
classify_health_starting_first(services) ==
    IF services = <<>> THEN HealthResult("NoServices", <<>>)
    ELSE LET c == Categorize(services, 1, <<>>, <<>>)
         IN IF c.failed # <<>>
            THEN HealthResult("Failed", c.starting \o c.failed)
            ELSE IF c.starting # <<>>
            THEN HealthResult("Starting", c.starting)
            ELSE HealthResult("Healthy", <<>>)

classify_health(services) ==
    IF services = <<>> THEN HealthResult("NoServices", <<>>)
    ELSE LET c == Categorize(services, 1, <<>>, <<>>)
         IN IF c.failed # <<>>
            THEN HealthResult("Failed", c.failed \o c.starting)
            ELSE IF c.starting # <<>>
            THEN HealthResult("Starting", c.starting)
            ELSE HealthResult("Healthy", <<>>)

\* verify_services_healthy: the status query, then the classification
verify_services_healthy(reply) ==
    LET st == get_services_status(reply)
    IN IF ~st.ok THEN [ok |-> FALSE, kind |-> "Err", list |-> <<>>, err |-> st.err]
       ELSE classify_health(st.services)

-----------------------------------------------------------------------------
(* Remote execution: a run of a step is the list of remote operations it   *)
(* has issued and the error it returned ("" while it has returned none).   *)
(* A remote command answers "ok" (exit status 0), "nonzero" (another exit  *)
(* status: a successful CommandResult the caller inspects) or "err" (an    *)
(* ExecutorError: the transport failed).                                   *)

Replies3 == {"ok", "nonzero", "err"}

\* a remote operation: the command or upload, the path it is applied to
\* (a path is the sequence of its components), and (once issued) the reply
\* it got
Op(cmd) == [cmd |-> cmd, path |-> <<>>, port |-> 0, proto |-> "", rep |-> ""]
OpPath(cmd, path) == [cmd |-> cmd, path |-> path, port |-> 0, proto |-> "", rep |-> ""]
OpPort(cmd, port, proto) ==
    [cmd |-> cmd, path |-> <<>>, port |-> port, proto |-> proto, rep |-> ""]

Fail(r, e) == [r EXCEPT !.err = e]

\* A guard on a run: a field of the run and the value it must have (the
\* condition of the `if` around a command), or no condition
When(field, value) == [field |-> field, value |-> value]
Always == [field |-> "", value |-> TRUE]
Holds(guard, r) == guard.field = "" \/ r[guard.field] = guard.value

\* every run of `runs` that is still going and satisfies the guard issues
\* `op`, once for each possible reply; the other runs issue nothing
Issue(runs, guard, op, replies) ==
    UNION { IF r.err = "" /\ Holds(guard, r)
            THEN { [run |-> [r EXCEPT !.ops = Append(@, [op EXCEPT !.rep = rep])],
                    issued |-> TRUE, rep |-> rep] : rep \in replies }
            ELSE { [run |-> r, issued |-> FALSE,
                    rep |-> CHOOSE rep \in replies : TRUE] } : r \in runs }

\* variant: a transport error is passed over like a nonzero exit status
OnTransportErr_ignored(e, r, rep) == r

\* `?` on the transport error only: the exit status is not looked at
OnTransportErr(e, r, rep) == IF rep = "err" THEN Fail(r, e) ELSE r

\* `?` on the transport error, and an error on a nonzero exit status
OnAnyFailure(e, r, rep) == IF rep # "ok" THEN Fail(r, e) ELSE r

\* A status message: the text it is formatted from, and the values formatted
\* into it (the attempt count, the port, the per-service details, the error)
Message(kind, n, port, details, error) ==
    [kind |-> kind, attempts |-> n, port |-> port, details |-> details, error |-> error]

NoMessage == Message("", 0, 0, <<>>, "")

-----------------------------------------------------------------------------
(* sync/mod.rs, sync/files.rs *)

\* a path is the sequence of its components; the local project directory
\* and the resolved remote directory of the deployment
ProjectDir == <<"proj">>
RemoteRoot == <<"opt", "app">>
DCD_ENV_FILE == ".env.dcd"

\* Path::file_name, Path::join, Path::starts_with, Path::strip_prefix
file_name(path) == path[Len(path)]
join(dir, name) == Append(dir, name)
starts_with(path, base) ==
    Len(base) <= Len(path) /\ \A i \in 1..Len(base) : path[i] = base[i]
strip_prefix(path, base) == SubSeq(path, Len(base) + 1, Len(path))

\* The local file system is a function from the paths of its files to the
\* hashes of their contents; its directories are the proper prefixes of
\* these paths.
Hashes == {"h1", "h2"}
is_file(fs, path) == path \in DOMAIN fs
exists(fs, path) == \E p \in DOMAIN fs : starts_with(p, path)

\* fs::read_dir: the entries of a directory
read_dir(fs, dir) ==
    { SubSeq(p, 1, Len(dir) + 1) :
        p \in { q \in DOMAIN fs : starts_with(q, dir) /\ Len(q) > Len(dir) } }

\* sha256_file: the hex digest of the local file's content
sha256_file(fs, path) == fs[path]

SyncPair(local, remote, is_directory) ==
    [local_path |-> local, remote_path |-> remote, is_directory |-> is_directory]

\* what `sha256sum <remote>` may answer: a transport error, a nonzero exit
\* (no such file), an empty stdout, or the digest of the remote file
ShaReplies == {"err", "nonzero", "empty"} \cup Hashes

\* variant: the file is uploaded whatever the remote digest is
should_sync_file_always(r, rep, local_sum) ==
    IF rep = "empty" THEN Fail(r, "FileSync(Invalid checksum output)")
    ELSE [r EXCEPT !.decision = "upload"]

\* variant: a remote file whose digest differs is left as it is
should_sync_file_missing_only(r, rep, local_sum) ==
    IF rep = "empty" THEN Fail(r, "FileSync(Invalid checksum output)")
    ELSE [r EXCEPT !.decision = IF rep \in Hashes THEN "skip" ELSE "upload"]

\* should_sync_file: `local_sum != remote_sum` when the command succeeded,
\* true in every other case; an Err only for an unusable stdout of a
\* successful command
should_sync_file(r, rep, local_sum) ==
    IF rep = "empty" THEN Fail(r, "FileSync(Invalid checksum output)")
    ELSE IF rep \in Hashes
    THEN [r EXCEPT !.decision = IF local_sum # rep THEN "upload" ELSE "skip"]
    ELSE [r EXCEPT !.decision = "upload"]

\* the arms of `match upload_file(..)` in sync_file
upload_result(r, pair, rep) ==
    IF rep = "ok"
    THEN [r EXCEPT !.files_synced = Append(@, pair.local_path), !.decision = "none"]
    ELSE Fail([r EXCEPT !.files_failed = Append(@, pair.local_path),
                        !.err_path = pair.local_path,
                        !.decision = "none"],
              "FileSync(Failed to sync file)")

RECURSIVE sync_file(_, _, _)
RECURSIVE sync_entries(_, _, _, _)

\* the `while let` of sync_directory: the entries in the order read_dir
\* yields them, which is not specified
sync_entries(runs, pair, entries, fs) ==
    IF entries = {} THEN runs
    ELSE UNION { sync_entries(
                     sync_file(runs,
                               SyncPair(e, join(pair.remote_path, file_name(e)),
                                        ~is_file(fs, e)),
                               fs),
                     pair, entries \ {e}, fs) : e \in entries }

\* sync_directory: the remote directory, then every entry of the local one;
\* read_dir fails on a path that is no directory
sync_directory(runs, pair, fs) ==
    LET r1 == { IF x.issued
                THEN LET r == x.run
                         rep == x.rep
                     IN OnTransportErr("FileSync(Failed to create remote directory)",
                                       r, rep)
                ELSE x.run :
                x \in Issue(runs, Always, OpPath("mkdir -p", pair.remote_path), Replies3) }
        r2 == { IF r.err = "" /\ is_file(fs, pair.local_path)
                THEN Fail(r, "FileSync(Failed to read directory)")
                ELSE r : r \in r1 }
    IN sync_entries(r2, pair, read_dir(fs, pair.local_path), fs)

sync_file(runs, pair, fs) ==
    IF pair.is_directory THEN sync_directory(runs, pair, fs)
    ELSE
    LET r1 == { IF x.issued
                THEN LET r == x.run
                         rep == x.rep
                     IN should_sync_file(r, rep, sha256_file(fs, pair.local_path))
                ELSE x.run :
                x \in Issue(runs, Always, OpPath("sha256sum", pair.remote_path), ShaReplies) }
        r2 == { IF x.issued
                THEN LET r == x.run
                         rep == x.rep
                     IN upload_result(r, pair, rep)
                ELSE x.run :
                x \in Issue(r1, When("decision", "upload"), OpPath("upload", pair.remote_path),
                            {"ok", "err"}) }
    IN { IF r.err = "" /\ r.decision = "skip"
         THEN [r EXCEPT !.files_skipped = Append(@, pair.local_path),
                        !.decision = "none"]
         ELSE r : r \in r2 }

RECURSIVE sync_pairs(_, _, _, _)
sync_pairs(runs, pairs, i, fs) ==
    IF i > Len(pairs) THEN runs
    ELSE sync_pairs(sync_file(runs, pairs[i], fs), pairs, i + 1, fs)

ensure_remote_directory(runs) ==
    { IF x.issued
      THEN LET r == x.run
               rep == x.rep
           IN OnTransportErr("FileSync(Failed to create remote directory)", r, rep)
      ELSE x.run :
      x \in Issue(runs, Always, OpPath("mkdir -p", RemoteRoot), Replies3) }

\* FileSyncStatus::default, in a run that has issued nothing yet
NewSyncRun ==
    [ops |-> <<>>, err |-> "", err_path |-> <<>>, decision |-> "none",
     files_synced |-> <<>>, files_skipped |-> <<>>, files_failed |-> <<>>]

\* the pairs of a plan in the order FileSync::sync_files goes through them
PlanPairs(plan) ==
    plan.compose_files \o plan.env_files \o plan.reference_files \o plan.files

\* FileSync::sync_files: the remote root, then the buckets in their fixed order
FileSync_sync_files(plan, fs) ==
    sync_pairs(ensure_remote_directory({NewSyncRun}), PlanPairs(plan), 1, fs)

\* variant: a top-level path is added for every reference into it
already_synced_never(seen, top_level_path) == FALSE

\* `!synced_top_level_paths.insert(top_level_path)`
already_synced(seen, top_level_path) == top_level_path \in seen

\* the loop over config.local_references: `seen` is synced_top_level_paths,
\* `acc` the reference pairs added so far
RECURSIVE add_references(_, _, _, _, _)
add_references(refs, i, seen, acc, fs) ==
    IF i > Len(refs) THEN acc
    ELSE LET path == refs[i]
             rel == strip_prefix(path, ProjectDir)
             top_level_path == join(ProjectDir, rel[1])
         IN IF ~starts_with(path, ProjectDir) \/ ~exists(fs, path) \/ rel = <<>>
               \/ already_synced(seen, top_level_path)
            THEN add_references(refs, i + 1, seen, acc, fs)
            ELSE add_references(refs, i + 1, seen \cup {top_level_path},
                                Append(acc, SyncPair(top_level_path,
                                                     join(RemoteRoot, rel[1]), TRUE)),
                                fs)

\* the plan Deployer::sync_files builds
SyncPlanOf(cfg, dcd, fs) ==
    [compose_files |-> [i \in 1..Len(cfg.compose_files) |->
                           SyncPair(cfg.compose_files[i],
                                    join(RemoteRoot, file_name(cfg.compose_files[i])),
                                    FALSE)],
     env_files |-> [i \in 1..Len(cfg.env_files) |->
                       SyncPair(cfg.env_files[i],
                                join(RemoteRoot, file_name(cfg.env_files[i])), FALSE)]
                   \o (IF dcd THEN <<SyncPair(join(ProjectDir, DCD_ENV_FILE),
                                              join(RemoteRoot, DCD_ENV_FILE), FALSE)>>
                       ELSE <<>>),
     reference_files |-> add_references(cfg.local_references, 1, {}, <<>>, fs),
     files |-> <<>>]

\* the local files of a project whose files all exist, with some content
LocalFilesOf(cfg, dcd) ==
    [p \in { cfg.compose_files[i] : i \in 1..Len(cfg.compose_files) }
             \cup { cfg.env_files[i] : i \in 1..Len(cfg.env_files) }
             \cup (IF dcd THEN { join(ProjectDir, DCD_ENV_FILE) } ELSE {}) |-> "h1"]

\* Deployer::sync_files: the runs of the Sync Files step, each with the
\* files_changed it leaves in the status
sync_files(cfg, dcd) ==
    { [ops |-> r.ops,
       err |-> IF r.err = "" /\ r.files_failed # <<>>
               THEN "FileSync(Failed to sync files)" ELSE r.err,
       files_changed |-> r.err = "" /\ r.files_synced # <<>>] :
      r \in FileSync_sync_files(SyncPlanOf(cfg, dcd, LocalFilesOf(cfg, dcd)),
                                LocalFilesOf(cfg, dcd)) }

-----------------------------------------------------------------------------
(* cli/common.rs *)

\* a target `[user@]host[:port]` as the command line gives it: "" stands
\* for an absent user, 0 for an absent port
TargetStr(user, host, port) == [user |-> user, host |-> host, port |-> port]

\* parse_ssh_target: the user defaults to root and the port to 22
parse_ssh_target(target_str) ==
    [user |-> IF target_str.user = "" THEN "root" ELSE target_str.user,
     host |-> target_str.host,
     port |-> IF target_str.port = 0 THEN 22 ELSE target_str.port]

-----------------------------------------------------------------------------
(* firewall/mod.rs, firewall/ufw.rs *)

\* Protocol::from(&str)
ProtocolFrom(str) ==
    IF str = "tcp" THEN "Tcp" ELSE IF str = "udp" THEN "Udp" ELSE "Both"

\* Display for Protocol
ProtocolString(protocol) ==
    IF protocol = "Tcp" THEN "tcp" ELSE IF protocol = "Udp" THEN "udp" ELSE "tcp/udp"

\* a rule `<port>/<proto>` of the firewall
Rule(port, proto) == <<port, proto>>

\* the rules a listing of the firewall may show for the ports of `ports`
RuleSets(ports) ==
    SUBSET { Rule(ports[i].port, proto) : i \in 1..Len(ports), proto \in {"tcp", "udp"} }

\* variant: the firewall is enabled before the management port is allowed
ufw_bootstrap_enable_first ==
    <<Op("echo 'y' | ufw enable"), OpPort("ufw allow", 22, "tcp")>>

\* the two commands ensure_ufw issues on a firewall that is not active, in
\* the order of the source: `ufw allow 22/tcp`, then `echo 'y' | ufw enable`
ufw_bootstrap == <<OpPort("ufw allow", 22, "tcp"), Op("echo 'y' | ufw enable")>>

\* ensure_ufw: install when absent, then when the status is not active
\* allow SSH and enable
ensure_ufw(runs) ==
    LET r1 == { IF x.issued
                THEN LET r == x.run
                         rep == x.rep
                     IN IF rep = "err" THEN Fail(r, "Firewall(Failed to check UFW)")
                        ELSE [r EXCEPT !.installed = (rep = "ok")]
                ELSE x.run :
                x \in Issue(runs, Always, Op("which ufw"), Replies3) }
        r2 == { IF x.issued
                THEN LET r == x.run
                         rep == x.rep
                     IN OnTransportErr("Firewall(Failed to install UFW)", r, rep)
                ELSE x.run :
                x \in Issue(r1, When("installed", FALSE),
                            Op("apt-get update && apt-get install -y ufw"), Replies3) }
        r3 == { IF x.issued
                THEN LET r == x.run
                         rep == x.rep
                     IN IF rep = "err" THEN Fail(r, "Firewall(Failed to check UFW status)")
                        ELSE [r EXCEPT !.active = (rep = "active")]
                ELSE x.run :
                x \in Issue(r2, Always, Op("ufw status"), {"err", "active", "inactive"}) }
        r4 == { IF x.issued
                THEN LET r == x.run
                         rep == x.rep
                     IN OnTransportErr("Firewall(Failed to allow SSH)", r, rep)
                ELSE x.run :
                x \in Issue(r3, When("active", FALSE), ufw_bootstrap[1], Replies3) }
    IN { IF x.issued
         THEN LET r == x.run
                  rep == x.rep
              IN OnTransportErr("Firewall(Failed to enable UFW)", r, rep)
         ELSE x.run :
         x \in Issue(r4, When("active", FALSE), ufw_bootstrap[2], Replies3) }

get_opened_ports(runs, guard, ports) ==
    UNION { IF x.issued
            THEN LET r == x.run
                     rep == x.rep
                 IN IF rep = "err"
                    THEN { Fail(r, "Firewall(Failed to get UFW status)") }
                    ELSE { [r EXCEPT !.current_ports = rules] :
                           rules \in RuleSets(ports) }
            ELSE { x.run } :
            x \in Issue(runs, guard, Op("ufw status numbered"), Replies3) }

\* variant: no port is taken as configured
is_port_configured_never(current_ports, cfg) == FALSE

is_port_configured(current_ports, cfg) ==
    IF cfg.protocol = "Both"
    THEN Rule(cfg.port, "tcp") \in current_ports /\ Rule(cfg.port, "udp") \in current_ports
    ELSE Rule(cfg.port, ProtocolString(cfg.protocol)) \in current_ports

add_single_port_rule(runs, guard, port, proto) ==
    { IF x.issued
      THEN LET r == x.run
               rep == x.rep
           IN OnTransportErr("Firewall(Failed to add port rule)", r, rep)
      ELSE x.run :
      x \in Issue(runs, guard, OpPort("ufw allow", port, proto), Replies3) }

add_port_rule(runs, guard, cfg) ==
    IF cfg.protocol = "Both"
    THEN add_single_port_rule(add_single_port_rule(runs, guard, cfg.port, "tcp"),
                              guard, cfg.port, "udp")
    ELSE add_single_port_rule(runs, guard, cfg.port, ProtocolString(cfg.protocol))

RECURSIVE configure_each(_, _, _)
configure_each(runs, ports, i) ==
    IF i > Len(ports) THEN runs
    ELSE configure_each(
             add_port_rule({ IF r.err = ""
                             THEN [r EXCEPT !.configured =
                                      is_port_configured(r.current_ports, ports[i])]
                             ELSE r : r \in runs },
                           When("configured", FALSE), ports[i]),
             ports, i + 1)

configure_ports(runs, ports) ==
    configure_each(get_opened_ports(ensure_ufw(runs), Always, ports), ports, 1)

\* verify_port: r.verified is its Ok(bool)
verify_port(runs, cfg, ports) ==
    LET r0 == { IF r.err = "" THEN [r EXCEPT !.verified = TRUE] ELSE r : r \in runs }
        r1 == IF cfg.protocol \in {"Tcp", "Both"}
              THEN { IF x.issued
                     THEN LET r == x.run
                              rep == x.rep
                          IN IF rep = "err" THEN Fail(r, "Firewall(nc)")
                             ELSE [r EXCEPT !.verified = (rep = "ok")]
                     ELSE x.run :
                     x \in Issue(r0, Always, OpPort("nc -z -v localhost", cfg.port, ""),
                                 Replies3) }
              ELSE r0
        r2 == IF cfg.protocol \in {"Udp", "Both"}
              THEN get_opened_ports(r1, When("verified", TRUE), ports)
              ELSE r1
    IN IF cfg.protocol \in {"Udp", "Both"}
       THEN { IF r.err = "" /\ r.verified
              THEN [r EXCEPT !.verified = Rule(cfg.port, "udp") \in r.current_ports]
              ELSE r : r \in r2 }
       ELSE r2

RECURSIVE verify_each(_, _, _)
verify_each(runs, ports, i) ==
    IF i > Len(ports) THEN runs
    ELSE verify_each(
             { IF r.err = "" /\ ~r.verified
               THEN [r EXCEPT !.message = Message("Port is not accessible", 0,
                                                   ports[i].port, <<>>, ""),
                              !.ports_changed = TRUE]
               ELSE r : r \in verify_port(runs, ports[i], ports) },
             ports, i + 1)

\* the PortConfig list configure_firewall derives from the exposed ports
PortConfigs(exposed_ports) ==
    [i \in 1..Len(exposed_ports) |->
        [port |-> exposed_ports[i].target,
         protocol |-> ProtocolFrom(IF exposed_ports[i].protocol = "none" THEN "tcp"
                                   ELSE exposed_ports[i].protocol),
         description |-> exposed_ports[i].published]]

\* Deployer::configure_firewall: the runs of the Configure Firewall step
configure_firewall(cfg) ==
    LET r0 == { [ops |-> <<>>, err |-> "", installed |-> FALSE, active |-> FALSE,
                 current_ports |-> {}, configured |-> FALSE, verified |-> TRUE,
                 message |-> NoMessage,
                 ports_changed |-> FALSE] }
        port_configs == PortConfigs(cfg.exposed_ports)
    IN IF cfg.exposed_ports = <<>> THEN r0
       ELSE verify_each(configure_ports(r0, port_configs), port_configs, 1)

-----------------------------------------------------------------------------
(* docker_manager: validator.rs, installer.rs, mod.rs *)

InstallDockerCommands ==
    << "apt-get update",
       "apt-get install -y ca-certificates curl gnupg",
       "install -m 0755 -d /etc/apt/keyrings",
       "curl -fsSL https://download.docker.com/linux/debian/gpg | gpg --dearmor",
       "chmod a+r /etc/apt/keyrings/docker.gpg",
       "echo deb ... | tee /etc/apt/sources.list.d/docker.list",
       "apt-get update (docker)",
       "apt-get install -y docker-ce docker-ce-cli containerd.io" >>

InstallComposeCommands ==
    << "curl -L .../docker-compose -o /usr/local/bin/docker-compose",
       "chmod +x /usr/local/bin/docker-compose" >>

\* a fixed command list, aborted at the first command that does not succeed
RECURSIVE run_commands(_, _, _, _)
run_commands(runs, guard, commands, i) ==
    IF i > Len(commands) THEN runs
    ELSE run_commands(
             { IF x.issued
               THEN LET r == x.run
                        rep == x.rep
                    IN IF rep = "err" THEN Fail(r, "DockerManager(Executor)")
                       ELSE IF rep = "nonzero" THEN Fail(r, "DockerManager(InstallationError)")
                       ELSE r
               ELSE x.run :
               x \in Issue(runs, guard, Op(commands[i]), Replies3) },
             guard, commands, i + 1)

detect_distro(runs) ==
    { IF x.issued
      THEN LET r == x.run
               rep == x.rep
           IN IF rep = "err" THEN Fail(r, "DockerManager(Executor)")
              ELSE [r EXCEPT !.distro = IF rep = "debian" THEN "Debian"
              ELSE IF rep = "ubuntu" THEN "Ubuntu"
              ELSE "Unknown"]
      ELSE x.run :
      x \in Issue(runs, Always, Op("cat /etc/os-release"),
                  {"err", "nonzero", "debian", "ubuntu", "other"}) }

\* variant: the answer of `test -d` is not looked at
verify_working_directory_unchecked(runs) ==
    { IF x.issued
      THEN LET r == x.run
               rep == x.rep
           IN IF rep = "err" THEN Fail(r, "DockerManager(Executor)") ELSE r
      ELSE x.run :
      x \in Issue(runs, Always, OpPath("test -d", RemoteRoot), Replies3) }

\* verify_working_directory: `test -d <dir> && echo 'exists'`, an error when
\* its exit status is not 0
verify_working_directory(runs) ==
    { IF x.issued
      THEN LET r == x.run
               rep == x.rep
           IN IF rep = "err" THEN Fail(r, "DockerManager(Executor)")
              ELSE IF rep = "nonzero" THEN Fail(r, "DockerManager(WorkingDirError)")
              ELSE r
      ELSE x.run :
      x \in Issue(runs, Always, OpPath("test -d", RemoteRoot), Replies3) }

\* SshDockerManager::new
SshDockerManager_new(runs) == verify_working_directory(detect_distro(runs))

install_docker(runs, guard) ==
    LET r1 == { IF r.err = "" /\ Holds(guard, r) /\ r.distro = "Unknown"
                THEN Fail(r, "DockerManager(UnsupportedOS)") ELSE r : r \in runs }
    IN run_commands(r1, guard, InstallDockerCommands, 1)

ensure_docker_installed(runs) ==
    LET r1 == { IF x.issued
                THEN LET r == x.run
                         rep == x.rep
                     IN IF rep = "err" THEN Fail(r, "DockerManager(Executor)")
                        ELSE [r EXCEPT !.installed = (rep = "ok")]
                ELSE x.run :
                x \in Issue(runs, Always, Op("docker --version"), Replies3) }
    IN install_docker(r1, When("installed", FALSE))

ensure_docker_compose_installed(runs) ==
    LET r1 == { IF x.issued
                THEN LET r == x.run
                         rep == x.rep
                     IN IF rep = "err" THEN Fail(r, "DockerManager(Executor)")
                        ELSE [r EXCEPT !.installed = (rep = "ok")]
                ELSE x.run :
                x \in Issue(runs, Always, Op("docker-compose --version"), Replies3) }
    IN run_commands(r1, When("installed", FALSE), InstallComposeCommands, 1)

\* prune_images: the listing is looked at only when it succeeds; the prune
\* command's failure is returned
prune_images(runs) ==
    LET r1 == { IF x.issued
                THEN LET r == x.run
                         rep == x.rep
                     IN r
                ELSE x.run :
                x \in Issue(runs, Always, Op("docker-compose images --format json"), Replies3) }
    IN { IF x.issued
         THEN LET r == x.run
                  rep == x.rep
              IN IF rep = "err" THEN Fail(r, "DockerManager(Executor)")
                 ELSE IF rep = "nonzero" THEN Fail(r, "DockerManager(CommandError)")
                 ELSE r
         ELSE x.run :
         x \in Issue(r1, Always, Op("docker image prune -f"), Replies3) }

compose_command(runs, cmd) ==
    { IF x.issued
      THEN LET r == x.run
               rep == x.rep
           IN IF rep = "err" THEN Fail(r, "DockerManager(Executor)")
              ELSE IF rep = "nonzero" THEN Fail(r, "DockerManager(CommandError)")
              ELSE r
      ELSE x.run :
      x \in Issue(runs, Always, Op(cmd), Replies3) }

compose_up(runs) ==
    compose_command(compose_command(prune_images(runs), "docker-compose pull"),
                    "docker-compose up -d --remove-orphans")

\* deploy_services up to the health loop: bind the manager, make sure the
\* runtime is there, start the services
\* the files a manager is bound to: none before a flow has built its lists
ManagerFiles(compose_files, env_files) ==
    [compose_files |-> compose_files, env_files |-> env_files]

NoManagerFiles == ManagerFiles(<<>>, <<>>)

\* `.iter().map(|p| PathBuf::from(p.file_name()..)).collect()`
basenames(paths) == [i \in 1..Len(paths) |-> <<file_name(paths[i])>>]

\* the lists deploy_services gives to SshDockerManager::new: the env files
\* with the generated .env.dcd when it exists
deploy_services_files(cfg, dcd) ==
    ManagerFiles(basenames(cfg.compose_files),
                 basenames(cfg.env_files)
                     \o (IF dcd THEN <<<<DCD_ENV_FILE>>>> ELSE <<>>))

\* the lists destroy gives to SshDockerManager::new
destroy_files(cfg, dcd) ==
    ManagerFiles(basenames(cfg.compose_files),
                 basenames(cfg.env_files)
                     \o (IF dcd THEN <<<<DCD_ENV_FILE>>>> ELSE <<>>))

\* the lists get_status gives to SshDockerManager::new: the env files of
\* the configuration
get_status_files(cfg) ==
    ManagerFiles(basenames(cfg.compose_files), basenames(cfg.env_files))

deploy_services_start ==
    LET r0 == { [ops |-> <<>>, err |-> "", distro |-> "Unknown", installed |-> FALSE] }
    IN compose_up(ensure_docker_compose_installed(
                      ensure_docker_installed(SshDockerManager_new(r0))))

-----------------------------------------------------------------------------
(* service.rs: Deployer *)

PREPARE == "Preparing environment"
SYNC == "Synchronizing files"
FIREWALL == "Configuring firewall"
SERVICES == "Deploying services"

Pipeline == <<PREPARE, SYNC, FIREWALL, SERVICES>>

Event(type, step, error) == [type |-> type, step |-> step, error |-> error]

HealthEvent(type, attempt, total, text, count) ==
    [type |-> type, attempt |-> attempt, total |-> total, text |-> text, count |-> count]

\* DeploymentStatus::new
NewStatus ==
    [files_changed |-> FALSE, env_changed |-> FALSE, ports_changed |-> FALSE,
     services_healthy |-> FALSE, message |-> NoMessage]

NoResult == [kind |-> "none", step |-> "", error |-> ""]
OkResult == [kind |-> "ok", step |-> "", error |-> ""]
ErrResult(step, e) == [kind |-> "err", step |-> step, error |-> e]

\* the operations of a run as the step's log keeps them: which step issued
\* what, the replies left out
Tagged(step, rops) ==
    [i \in 1..Len(rops) |-> [step |-> step, op |-> [rops[i] EXCEPT !.rep = ""]]]

\* the commands of the run that failed in the transport
TransportFailed(rops) == { rops[i].cmd : i \in { j \in 1..Len(rops) : rops[j].rep = "err" } }

\* variant: a failed file synchronisation does not stop the pipeline
deploy_next_pc_sync_ignored(step, err) ==
    IF step = "Synchronizing files" THEN "firewall"
    ELSE IF err # "" THEN "done"
    ELSE IF step = "Preparing environment" THEN "sync"
    ELSE IF step = "Configuring firewall" THEN "services"
    ELSE "health_poll"

\* deploy's control flow after a step: `return Err(e)` on an error, else the
\* next step (after Deploy Services has started the services: its health loop)
deploy_next_pc(step, err) ==
    IF err # "" THEN "done"
    ELSE IF step = PREPARE THEN "sync"
    ELSE IF step = SYNC THEN "firewall"
    ELSE IF step = FIREWALL THEN "services"
    ELSE "health_poll"

\* prepare_environment: .env.dcd is generated when the project consumes
\* environment variables; writing it may fail
prepare_environment(cfg) ==
    IF cfg.has_env_vars
    THEN { [ops |-> <<>>, err |-> "", env_changed |-> TRUE],
           [ops |-> <<>>, err |-> "Environment(generate_dcd_env)", env_changed |-> FALSE] }
    ELSE { [ops |-> <<>>, err |-> "", env_changed |-> FALSE] }

\* what every step of deploy does around the step's own work: StepStarted,
\* then StepFailed and the return of the error, or StepCompleted
EndStep(step, out, first) ==
    /\ ops' = Tagged(step, out.ops)
    /\ pc' = deploy_next_pc(step, out.err)
    /\ result' = IF out.err # "" THEN ErrResult(step, out.err) ELSE result
    /\ trace' = Append(trace, [step |-> step,
                               outcome |-> IF out.err # "" THEN "err"
                                           ELSE IF step = SERVICES THEN "running"
                                           ELSE "ok",
                               transport |-> TransportFailed(out.ops)])
    /\ events' = events
                  \o (IF first THEN <<Event("StepStarted", "Starting Deployment", "")>>
                      ELSE <<>>)
                  \o <<Event("StepStarted", step, "")>>
                  \o (IF out.err # "" THEN <<Event("StepFailed", step, out.err)>>
                      ELSE IF step = SERVICES THEN <<>>
                      ELSE <<Event("StepCompleted", step, "")>>)

loopVars == <<attempts, health_events, last_status, last_result, polls, sleeps,
              nFailed, nStarting>>

PrepareEnvironment ==
    /\ pc = "prepare"
    /\ \E out \in prepare_environment(config) :
          /\ EndStep(PREPARE, out, TRUE)
          /\ status' = [status EXCEPT !.env_changed = out.env_changed]
          /\ dcd_exists' = (dcd_exists \/ out.env_changed)
    /\ UNCHANGED <<config, args, nservices, loopVars, syncVars, sshVars, extVars>>

SyncFiles ==
    /\ pc = "sync"
    /\ \E out \in sync_files(config, dcd_exists) :
          /\ EndStep(SYNC, out, FALSE)
          /\ status' = IF out.err = ""
                       THEN [status EXCEPT !.files_changed = out.files_changed]
                       ELSE status
    /\ UNCHANGED <<config, args, nservices, dcd_exists, loopVars, syncVars, sshVars, extVars>>

ConfigureFirewall ==
    /\ pc = "firewall"
    /\ \E out \in configure_firewall(config) :
          /\ EndStep(FIREWALL, out, FALSE)
          /\ status' = IF out.ports_changed
                       THEN [status EXCEPT !.message = out.message,
                                           !.ports_changed = TRUE]
                       ELSE status
    /\ UNCHANGED <<config, args, nservices, dcd_exists, loopVars, syncVars, sshVars, extVars>>

DeployServices ==
    /\ pc = "services"
    /\ \E out \in deploy_services_start :
          EndStep(SERVICES, out, FALSE)
    /\ manager_files' = deploy_services_files(config, dcd_exists)
    /\ UNCHANGED <<config, args, nservices, dcd_exists, status, loopVars, syncVars, sshVars,
                   fwVars, uiVars, sftpVars, execVars>>

\* before the first poll, and between two polls, there is no poll result
NoStatus == [ok |-> TRUE, services |-> <<>>, err |-> ""]
NoHealthResult == HealthResult("", <<>>)

\* variant: the long ceiling one poll later
StartingRetry_late(a) == a < MAX_STARTING_ATTEMPTS + 1

\* variant: the short ceiling counts the Failed polls only
FailedRetry_own_count(a) == nFailed + 1 < HEALTH_CHECK_RETRIES

\* the guards of the two retrying arms of the health loop
FailedRetry(a) == a < HEALTH_CHECK_RETRIES
StartingRetry(a) == a < MAX_STARTING_ATTEMPTS

\* variant: the message names the first service only
FailedDetails_first(list) ==
    [i \in 1..(IF Len(list) > 0 THEN 1 ELSE 0) |->
        [name |-> list[i].name, state |-> list[i].state,
         health |-> IF list[i].health = "" THEN "no health check" ELSE list[i].health]]

\* variant: the timeout message names no service
StartingDetails_none(list) == <<>>

\* the per-service details of the two terminal messages
FailedDetails(list) ==
    [i \in 1..Len(list) |->
        [name |-> list[i].name, state |-> list[i].state,
         health |-> IF list[i].health = "" THEN "no health check" ELSE list[i].health]]

StartingDetails(list) ==
    [i \in 1..Len(list) |->
        [name |-> list[i].name, state |-> list[i].state, health |-> list[i].health]]

\* The arms of the `match` of the health loop: the status each leaves, the
\* HealthCheckStatus event it sends, and whether it breaks out of the loop.
Arm(brk, st, text, count) ==
    [brk |-> brk, status |-> st,
     event |-> HealthEvent("HealthCheckStatus", 0, 0, text, count)]

\* variant: an empty project counts as healthy
on_no_services_healthy(st) ==
    [brk |-> TRUE, status |-> [st EXCEPT !.services_healthy = TRUE],
     event |-> HealthEvent("HealthCheckStatus", 0, 0, "No services found", 0)]

\* variant: a poll error is waited out and polled again
on_error_retry(e, st) ==
    [brk |-> FALSE, status |-> st,
     event |-> HealthEvent("HealthCheckStatus", 0, 0, "Error checking service health", 0)]

on_healthy(st) ==
    Arm(TRUE, [st EXCEPT !.services_healthy = TRUE], "All services are healthy", 0)

on_no_services(st) ==
    Arm(TRUE,
        [st EXCEPT !.services_healthy = FALSE,
                   !.message = Message("No services were found after deployment.",
                                       0, 0, <<>>, "")],
        "No services found", 0)

on_failed_retry(list, st) ==
    Arm(FALSE, st, "unhealthy service(s), retrying...", Len(list))

on_failed_final(a, list, st) ==
    Arm(TRUE,
        [st EXCEPT !.services_healthy = FALSE,
                   !.message = Message("Definitively unhealthy services found",
                                       a, 0, FailedDetails(list), "")],
        "Health check failed: unhealthy service(s)", Len(list))

on_starting_retry(list, st) ==
    Arm(FALSE, st, "service(s) still starting...", Len(list))

on_starting_final(a, list, st) ==
    Arm(TRUE,
        [st EXCEPT !.services_healthy = FALSE,
                   !.message = Message("Services still in 'starting' state after extended timeout",
                                       a, 0, StartingDetails(list), "")],
        "Timeout: service(s) still starting", Len(list))

on_error(e, st) ==
    Arm(TRUE,
        [st EXCEPT !.services_healthy = FALSE,
                   !.message = Message("Error checking service health", 0, 0, <<>>, e)],
        "Error checking service health", 0)

\* the `match` of the health loop on poll number a, arms in source order
health_match(a, res, st) ==
    IF res.ok /\ res.kind = "Healthy" THEN on_healthy(st)
    ELSE IF res.ok /\ res.kind = "NoServices" THEN on_no_services(st)
    ELSE IF res.ok /\ res.kind = "Failed" /\ FailedRetry(a)
    THEN on_failed_retry(res.list, st)
    ELSE IF res.ok /\ res.kind = "Failed" THEN on_failed_final(a, res.list, st)
    ELSE IF res.ok /\ res.kind = "Starting" /\ StartingRetry(a)
    THEN on_starting_retry(res.list, st)
    ELSE IF res.ok /\ res.kind = "Starting" THEN on_starting_final(a, res.list, st)
    ELSE on_error(res.err, st)

\* one iteration of the health loop up to its sleep or its break; after the
\* break deploy_services returns Ok(()) and deploy returns Ok(status)
HealthPoll ==
    /\ pc = "health_poll"
    /\ \E reply \in StatusReplies(nservices) :
          LET a == attempts + 1
              res == verify_services_healthy(reply)
              out == health_match(a, res, status)
          IN /\ attempts' = a
             /\ last_status' = get_services_status(reply)
             /\ last_result' = res
             /\ status' = out.status
             /\ health_events' =
                    <<HealthEvent("HealthCheckAttempt", a, HEALTH_CHECK_RETRIES, "", 0),
                      out.event>>
             /\ polls' = polls + 1
             /\ nFailed' = nFailed + (IF res.kind = "Failed" THEN 1 ELSE 0)
             /\ nStarting' = nStarting + (IF res.kind = "Starting" THEN 1 ELSE 0)
             /\ ops' = Append(ops, [step |-> SERVICES,
                                    op |-> Op("docker-compose ps --format json")])
             /\ IF out.brk
                THEN /\ pc' = "done"
                     /\ result' = OkResult
                     /\ trace' = [trace EXCEPT
                                      ![Len(trace)].outcome = "ok",
                                      ![Len(trace)].transport =
                                          @ \cup TransportFailed(
                                                     <<[cmd |-> "docker-compose ps --format json",
                                                        rep |-> ReplyClass(reply)]>>)]
                     /\ events' = Append(events, Event("StepCompleted", SERVICES, ""))
                ELSE /\ pc' = "health_sleep"
                     /\ UNCHANGED <<result, trace, events>>
    /\ UNCHANGED <<config, args, nservices, dcd_exists, sleeps, syncVars, sshVars, extVars>>

\* tokio::time::sleep(HEALTH_CHECK_DELAY), then the next iteration; the
\* result the arm matched on goes out of scope
HealthSleep ==
    /\ pc = "health_sleep"
    /\ pc' = "health_poll"
    /\ sleeps' = sleeps + 1
    /\ last_status' = NoStatus
    /\ last_result' = NoHealthResult
    /\ health_events' = <<>>
    /\ UNCHANGED <<nservices, attempts, status, result, ops, events,
                   config, args, dcd_exists, trace, polls, nFailed, nStarting, syncVars, sshVars, extVars>>

-----------------------------------------------------------------------------
(* service.rs: Deployer::destroy *)

DESTROY == "Destroying deployment"

\* the operations of a run with their replies
Logged(step, rops) == [i \in 1..Len(rops) |-> [step |-> step, op |-> rops[i]]]

\* has_running_services: the status query, then `any(is_running)`
has_running_services(runs, n) ==
    UNION { IF x.issued
            THEN { LET st == get_services_status(reply)
                   IN IF st.ok
                      THEN [x.run EXCEPT !.services_status = st,
                                         !.services_running =
                               \E i \in 1..Len(st.services) : is_running(st.services[i])]
                      ELSE Fail([x.run EXCEPT !.services_status = st], st.err) :
                   reply \in { q \in StatusReplies(n) : ReplyClass(q) = x.rep } }
            ELSE { x.run } :
            x \in Issue(runs, Always, Op("docker-compose ps --format json"), Replies3) }

\* the command line of compose_down
compose_down_cmd(remove_volumes, remove_images) ==
    IF remove_volumes /\ remove_images THEN "docker-compose down -v --rmi all"
    ELSE IF remove_volumes THEN "docker-compose down -v"
    ELSE IF remove_images THEN "docker-compose down --rmi all"
    ELSE "docker-compose down"

IsComposeDown(cmd) ==
    cmd \in { compose_down_cmd(v, i) : v \in BOOLEAN, i \in BOOLEAN }

compose_down(runs, remove_volumes, remove_images) ==
    compose_command(runs, compose_down_cmd(remove_volumes, remove_images))

\* variant: running services never stop a destroy
destroy_refused_never(services_running, force) == FALSE

\* `if services_running && !force`
destroy_refused(services_running, force) == services_running /\ ~force

\* variant: the project directory goes whenever the images go
removes_directory_with_images(a) == a.remove_images

\* `if remove_volumes` around the removal of the remote project directory
removes_directory(a) == a.remove_volumes

\* what `rm -rf <remote dir>` may answer: exit status 0, a nonzero exit
\* status with a stderr that is text or one that is no text, a transport error
RmReplies == {"ok", "nonzero", "unreadable", "err"}

\* `removal_details` before the directory is dealt with
removal_details(a) ==
    (IF a.remove_volumes THEN <<"volumes">> ELSE <<>>)
        \o (IF a.remove_images THEN <<"images">> ELSE <<>>)

\* destroy up to the check of the running services
destroy_check(n) ==
    LET r0 == { [ops |-> <<>>, err |-> "", distro |-> "Unknown", installed |-> FALSE,
                 services_status |-> NoStatus, services_running |-> FALSE] }
    IN has_running_services(SshDockerManager_new(r0), n)

DestroyCheck ==
    /\ pc = "destroy"
    /\ \E out \in destroy_check(nservices) :
          LET refused == out.err = "" /\ destroy_refused(out.services_running, args.force)
          IN /\ ops' = ops \o Logged(DESTROY, out.ops)
             /\ events' = Append(events, Event("StepStarted",
                                               "Initializing destruction...", ""))
             /\ status' = IF refused
                          THEN [status EXCEPT !.message =
                                   Message("Services are still running. Use --force to destroy anyway.",
                                           0, 0, <<>>, "")]
                          ELSE status
             /\ result' = IF out.err # "" THEN ErrResult(DESTROY, out.err)
                          ELSE IF refused
                          THEN ErrResult(DESTROY, "Deployment(Services are still running)")
                          ELSE result
             /\ pc' = IF out.err # "" \/ refused THEN "done" ELSE "destroy_down"
             /\ last_status' = out.services_status
    /\ manager_files' = destroy_files(config, dcd_exists)
    /\ UNCHANGED <<config, args, nservices, dcd_exists, trace, attempts, health_events,
                   last_result, polls, sleeps, nFailed, nStarting, syncVars, sshVars,
                   fwVars, uiVars, sftpVars, execVars>>

DestroyDown ==
    /\ pc = "destroy_down"
    /\ \E out \in compose_down({ [ops |-> <<>>, err |-> ""] },
                               args.remove_volumes, args.remove_images) :
          /\ ops' = ops \o Logged(DESTROY, out.ops)
          /\ events' = events
                        \o <<Event("StepStarted",
                                   "Stopping and removing containers/networks...", "")>>
                        \o (IF out.err = ""
                            THEN <<Event("StepCompleted",
                                         "Containers and networks removed.", "")>>
                            ELSE <<>>)
          /\ result' = IF out.err # "" THEN ErrResult(DESTROY, out.err) ELSE result
          /\ pc' = IF out.err # "" THEN "done" ELSE "destroy_remove"
    /\ UNCHANGED <<config, args, nservices, dcd_exists, status, trace, loopVars, syncVars, sshVars, extVars>>

\* the removal of the remote project directory and what it leaves in the
\* status and in removal_details
remove_directory(a) ==
    LET r0 == { [ops |-> <<>>, err |-> "", message |-> NoMessage,
                 details |-> removal_details(a), removed |-> FALSE] }
    IN IF removes_directory(a)
       THEN { IF x.rep = "err"
              THEN Fail(x.run, "Deployment(Failed to remove directory)")
              ELSE IF x.rep = "unreadable" THEN Fail(x.run, "Output(Utf8Error)")
              ELSE IF x.rep = "nonzero"
              THEN [x.run EXCEPT !.message =
                       Message("Deployment destroyed, but failed to remove project directory",
                               0, 0, <<>>, "stderr")]
              ELSE [x.run EXCEPT !.details = Append(@, "project directory"),
                                 !.removed = TRUE] :
              x \in Issue(r0, Always, OpPath("rm -rf", RemoteRoot), RmReplies) }
       ELSE r0

\* destroy from the end of compose_down to its return
DestroyRemove ==
    /\ pc = "destroy_remove"
    /\ \E out \in remove_directory(args) :
          /\ ops' = ops \o Logged(DESTROY, out.ops)
          /\ events' = events
                        \o (IF removes_directory(args)
                            THEN <<Event("StepStarted", "Removing remote directory", "")>>
                            ELSE <<>>)
                        \o (IF out.removed
                            THEN <<Event("StepCompleted", "Remote directory removed.", "")>>
                            ELSE <<>>)
                        \o (IF out.err = ""
                            THEN <<Event("StepCompleted", "Destruction complete.", "")>>
                            ELSE <<>>)
          \* the last assignment of status.message, whatever the branch of
          \* the removal assigned before
          /\ status' = IF out.err = ""
                       THEN [[status EXCEPT !.message = out.message]
                                EXCEPT !.message =
                                   Message("Deployment destroyed successfully", 0, 0,
                                           out.details, "")]
                       ELSE status
          /\ result' = IF out.err # "" THEN ErrResult(DESTROY, out.err) ELSE OkResult
          /\ pc' = "done"
    /\ UNCHANGED <<config, args, nservices, dcd_exists, trace, loopVars, syncVars, sshVars, extVars>>

-----------------------------------------------------------------------------
(* service.rs: Deployer::get_status *)

STATUS == "Checking status"

\* the arms of the `match` of get_status: the status each leaves
get_status_match(res, st) ==
    IF res.kind = "Healthy" THEN [st EXCEPT !.services_healthy = TRUE]
    ELSE IF res.kind = "NoServices"
    THEN [st EXCEPT !.services_healthy = FALSE,
                    !.message = Message("No services found.", 0, 0, <<>>, "")]
    ELSE IF res.kind = "Failed"
    THEN [st EXCEPT !.services_healthy = FALSE,
                    !.message = Message("Failed services", 0, 0, FailedDetails(res.list), "")]
    ELSE [st EXCEPT !.services_healthy = FALSE,
                    !.message = Message("Services still starting", 0, 0,
                                        StartingDetails(res.list), "")]

\* variant: a Starting classification is polled again
status_next_pc_retry(res) ==
    IF res.ok /\ res.kind = "Starting" /\ polls < 2 THEN "status_check" ELSE "done"

\* get_status after its one classification: `Ok(status)`, or the error of
\* the status query through `?`
status_next_pc(res) == "done"

\* get_status up to the manager it builds
StatusConnect ==
    /\ pc = "status"
    /\ \E out \in SshDockerManager_new({ [ops |-> <<>>, err |-> "", distro |-> "Unknown",
                                          installed |-> FALSE] }) :
          /\ ops' = ops \o Logged(STATUS, out.ops)
          /\ events' = events
                        \o <<Event("StepStarted", "Initializing status check...", ""),
                             Event("StepStarted", "Connecting to Docker...", "")>>
                        \o (IF out.err = ""
                            THEN <<Event("StepCompleted", "Connected to Docker.", "")>>
                            ELSE <<>>)
          /\ result' = IF out.err # "" THEN ErrResult(STATUS, out.err) ELSE result
          /\ pc' = IF out.err # "" THEN "done" ELSE "status_check"
    /\ manager_files' = get_status_files(config)
    /\ UNCHANGED <<config, args, nservices, dcd_exists, status, trace, loopVars, syncVars, sshVars,
                   fwVars, uiVars, sftpVars, execVars>>

\* get_status from DeploymentStatus::new to its return
StatusCheck ==
    /\ pc = "status_check"
    /\ \E reply \in StatusReplies(nservices) :
          LET res == verify_services_healthy(reply)
          IN /\ ops' = Append(ops, [step |-> STATUS,
                                    op |-> [Op("docker-compose ps --format json")
                                            EXCEPT !.rep = ReplyClass(reply)]])
             /\ polls' = polls + 1
             /\ last_status' = get_services_status(reply)
             /\ last_result' = res
             /\ events' = events
                           \o <<Event("StepStarted", "Checking service health...", "")>>
                           \o (IF res.ok
                               THEN <<Event("StepCompleted", "Service health checked.", "")>>
                               ELSE <<>>)
             /\ status' = IF res.ok THEN get_status_match(res, NewStatus) ELSE status
             /\ result' = IF res.ok THEN OkResult ELSE ErrResult(STATUS, res.err)
             /\ pc' = status_next_pc(res)
    /\ UNCHANGED <<config, args, nservices, dcd_exists, trace, attempts, health_events,
                   sleeps, nFailed, nStarting, syncVars, sshVars, extVars>>

-----------------------------------------------------------------------------
(* cli: a destroy, and the destroy or status command the operator runs    *)
(* after it on the same remote host; `ops` keeps the commands of both      *)

\* the positions in `ops` at which a command starts: detect_distro is the
\* first thing destroy and get_status issue
CallStarts == { i \in 1..Len(ops) : ops[i].op.cmd = "cat /etc/os-release" }

\* the positions of the `rm -rf <dir>` that removed the remote directory
Removals == { i \in 1..Len(ops) : ops[i].op.cmd = "rm -rf" /\ ops[i].op.rep = "ok" }

\* what the remote host answers to `test -d <dir>`: once the directory was
\* removed nothing creates it again, so the exit status is not 0
WorkdirAnswers ==
    \A i \in 1..Len(ops) :
        (ops[i].op.cmd = "test -d" /\ \E j \in Removals : j < i)
            => ops[i].op.rep \in {"nonzero", "err"}

\* the operator runs destroy or status after the destroy has returned Ok: a
\* new process, with a new Deployer and a new DeploymentStatus
RunAgain ==
    /\ pc = "done"
    /\ result.kind = "ok"
    /\ Cardinality(CallStarts) = 1
    /\ \E command \in {"destroy", "status"} : pc' = command
    /\ result' = NoResult
    /\ status' = NewStatus
    /\ events' = <<>>
    /\ last_status' = NoStatus
    /\ UNCHANGED <<nservices, attempts, ops, health_events, last_result, config, args,
                   dcd_exists, trace, polls, sleeps, nFailed, nStarting>>
    /\ UNCHANGED <<syncVars, sshVars, extVars>>

\* destroy up to the check of the running services, on that host
DestroyCheckOnHost ==
    /\ DestroyCheck
    /\ WorkdirAnswers'

\* get_status up to the manager it builds, on that host
StatusConnectOnHost ==
    /\ StatusConnect
    /\ WorkdirAnswers'

-----------------------------------------------------------------------------
(* sync/files.rs: calls of FileSync::sync_files on a remote host whose     *)
(* files are followed from call to call                                    *)

SYNCCALL == "FileSync::sync_files"

NoSyncStatus == [files_synced |-> <<>>, files_skipped |-> <<>>, files_failed |-> <<>>]

SyncStatusOf(r) ==
    [files_synced |-> r.files_synced, files_skipped |-> r.files_skipped,
     files_failed |-> r.files_failed]

\* the files a pair covers, each with the remote path it is synced to
PairFiles(pair, fs) ==
    IF pair.is_directory
    THEN { [local |-> p,
            remote |-> pair.remote_path \o strip_prefix(p, pair.local_path)] :
           p \in { q \in DOMAIN fs : starts_with(q, pair.local_path)
                                      /\ Len(q) > Len(pair.local_path) } }
    ELSE { [local |-> pair.local_path, remote |-> pair.remote_path] }

PlanFiles(plan, fs) ==
    UNION { PairFiles(PlanPairs(plan)[i], fs) : i \in 1..Len(PlanPairs(plan)) }

\* what sha256sum answers about a remote file: its digest, or a nonzero exit
\* when there is no such file; the transport may fail whatever the file is
ShaAnswers(remote, path) ==
    {"err"} \cup (IF path \in DOMAIN remote /\ remote[path] # "absent"
                  THEN { remote[path] } ELSE {"nonzero"})

\* the runs of a step that the remote files allow
AllowedBy(remote, r) ==
    \A i \in 1..Len(r.ops) :
        r.ops[i].cmd = "sha256sum" => r.ops[i].rep \in ShaAnswers(remote, r.ops[i].path)

\* the remote files after a run: an upload that succeeded leaves the content
\* of the local file, one that failed leaves the remote file as it was
Uploaded(r, files) ==
    { f \in files : \E i \in 1..Len(r.ops) :
                       /\ r.ops[i].cmd = "upload"
                       /\ r.ops[i].path = f.remote
                       /\ r.ops[i].rep = "ok" }

RemoteAfter(remote, r, files, fs) ==
    [p \in DOMAIN remote |->
        IF \E f \in Uploaded(r, files) : f.remote = p
        THEN fs[(CHOOSE f \in Uploaded(r, files) : f.remote = p).local]
        ELSE remote[p]]

\* history: what a run did about each file it got to
FileLog(call, remote, r, files, fs) ==
    LET shas == SelectSeq([i \in 1..Len(r.ops) |-> [i |-> i, op |-> r.ops[i]]],
                          LAMBDA x : x.op.cmd = "sha256sum")
    IN [k \in 1..Len(shas) |->
          LET i == shas[k].i
              f == CHOOSE g \in files : g.remote = r.ops[i].path
              upload == i < Len(r.ops) /\ r.ops[i + 1].cmd = "upload"
          IN [call |-> call, local |-> f.local, remote |-> f.remote,
              local_sum |-> fs[f.local],
              before |-> remote[f.remote],
              sha |-> r.ops[i].rep,
              action |-> IF ~upload THEN "skipped"
                         ELSE IF r.ops[i + 1].rep = "ok" THEN "uploaded"
                         ELSE "failed"]]

\* what a call of FileSync::sync_files returns: Ok(status), or Err(error)
\* and nothing else
SyncOk(st) == [kind |-> "ok", status |-> st, error |-> "", path |-> <<>>]
SyncErr(e, path) == [kind |-> "err", status |-> NoSyncStatus, error |-> e, path |-> path]

\* the caller calls again until it has made MaxSyncCalls calls
after_return(n) == IF n < MaxSyncCalls THEN "sync_call" ELSE "done"

\* `let mut status = FileSyncStatus::default()` and ensure_remote_directory
SyncBegin ==
    /\ pc = "sync_call"
    /\ \E out \in ensure_remote_directory({NewSyncRun}) :
          /\ ops' = Logged(SYNCCALL, out.ops)
          /\ sync_status' = NoSyncStatus
          /\ sync_pos' = 1
          /\ IF out.err # ""
             THEN /\ sync_returns' = Append(sync_returns, SyncErr(out.err, <<>>))
                  /\ pc' = after_return(Len(sync_returns) + 1)
             ELSE /\ pc' = "sync_pair"
                  /\ UNCHANGED sync_returns
    /\ sync_log' = <<>>
    /\ UNCHANGED <<sync_plan, local_fs, remote_fs>>
    /\ UNCHANGED <<nservices, attempts, status, result, events, health_events,
                   last_status, last_result, config, args, dcd_exists, trace,
                   polls, sleeps, nFailed, nStarting, sshVars, extVars>>

\* one iteration of the `for pair in ..` loops: sync_file on the next pair
SyncNextPair ==
    /\ pc = "sync_pair"
    /\ sync_pos <= Len(PlanPairs(sync_plan))
    /\ LET pair == PlanPairs(sync_plan)[sync_pos]
           files == PairFiles(pair, local_fs)
           r0 == [NewSyncRun EXCEPT !.files_synced = sync_status.files_synced,
                                    !.files_skipped = sync_status.files_skipped,
                                    !.files_failed = sync_status.files_failed]
       IN \E out \in { r \in sync_file({r0}, pair, local_fs) : AllowedBy(remote_fs, r) } :
             /\ ops' = ops \o Logged(SYNCCALL, out.ops)
             /\ remote_fs' = RemoteAfter(remote_fs, out, files, local_fs)
             /\ sync_status' = SyncStatusOf(out)
             /\ sync_log' = sync_log \o FileLog(Len(sync_returns) + 1, remote_fs, out,
                                                 files, local_fs)
             /\ IF out.err # ""
                THEN /\ sync_returns' = Append(sync_returns, SyncErr(out.err, out.err_path))
                     /\ pc' = after_return(Len(sync_returns) + 1)
                     /\ UNCHANGED sync_pos
                ELSE /\ sync_pos' = sync_pos + 1
                     /\ UNCHANGED <<sync_returns, pc>>
    /\ UNCHANGED <<sync_plan, local_fs>>
    /\ UNCHANGED <<nservices, attempts, status, result, events, health_events,
                   last_status, last_result, config, args, dcd_exists, trace,
                   polls, sleeps, nFailed, nStarting, sshVars, extVars>>

\* `Ok(status)` after the last pair
SyncReturn ==
    /\ pc = "sync_pair"
    /\ sync_pos > Len(PlanPairs(sync_plan))
    /\ sync_returns' = Append(sync_returns, SyncOk(sync_status))
    /\ pc' = after_return(Len(sync_returns) + 1)
    /\ UNCHANGED <<sync_plan, local_fs, remote_fs, sync_pos, sync_status, sync_log>>
    /\ UNCHANGED <<nservices, attempts, status, result, ops, events, health_events,
                   last_status, last_result, config, args, dcd_exists, trace,
                   polls, sleeps, nFailed, nStarting, sshVars, extVars>>

-----------------------------------------------------------------------------
(* service.rs: the plan Deployer::sync_files builds *)

\* Deployer::sync_files up to `Executing file synchronization...`
BuildPlan ==
    /\ pc = "plan"
    /\ sync_plan' = SyncPlanOf(config, dcd_exists, local_fs)
    /\ pc' = "planned"
    /\ UNCHANGED <<local_fs, remote_fs, sync_pos, sync_status, sync_log, sync_returns>>
    /\ UNCHANGED <<nservices, attempts, status, result, ops, events, health_events,
                   last_status, last_result, config, args, dcd_exists, trace,
                   polls, sleeps, nFailed, nStarting, sshVars, extVars>>

-----------------------------------------------------------------------------
(* firewall/ufw.rs: calls of UfwManager::configure_ports on a remote host  *)
(* whose firewall is followed from call to call                            *)

\* the rules `<port>/tcp` and `<port>/udp` of the ports of `ports`
RulesOf(ports) == UNION RuleSets(ports)

\* the commands of a run that add a rule for a desired port
\* (add_single_port_rule), as positions in its operations
AddRuleOps(rops) ==
    { i \in 1..Len(rops) : rops[i].cmd = "ufw allow" /\ rops[i].port # 22 }

\* the rules the commands at the positions `at` add
RulesAdded(rops, at) ==
    { Rule(rops[i].port, rops[i].proto) : i \in { j \in at : rops[j].cmd = "ufw allow" } }

\* a run the remote host can answer: ufw is installed on it, `ufw status`
\* says whether the firewall is active, and `ufw status numbered` lists its
\* ALLOW rules
FwAllowedBy(rules, active, r, ports) ==
    \A i \in 1..Len(r.ops) :
        /\ r.ops[i].cmd = "which ufw" => r.ops[i].rep \in {"err", "ok"}
        /\ r.ops[i].cmd = "ufw status"
              => r.ops[i].rep \in {"err", IF active THEN "active" ELSE "inactive"}
        /\ (r.ops[i].cmd = "ufw status numbered" /\ r.ops[i].rep # "err")
              => r.current_ports = rules \cap RulesOf(ports)

\* configure_ports on that host: ensure_ufw, get_opened_ports, then the loop
\* over the ports
configure_ports_on(rules, active, runs, ports) ==
    LET ensured == { r \in ensure_ufw(runs) : FwAllowedBy(rules, active, r, ports) }
        listed == { r \in get_opened_ports(ensured, Always, ports) :
                      FwAllowedBy(rules, active, r, ports) }
    IN configure_each(listed, ports, 1)

\* the commands of a run that changed the firewall: those with exit status
\* 0, and (when `effect`) the one that was cut off by a transport error
Effective(rops, effect) ==
    { i \in 1..Len(rops) : rops[i].rep = "ok" \/ (effect /\ rops[i].rep = "err") }

\* one call of configure_ports from its first line to its return, the first
\* of two or the second; `ops` is what the call issued, and the history
\* keeps of each call what it returned, the rules it added and the rules of
\* the firewall after it, and of the last call the rules it read
FwConfigure ==
    /\ pc \in {"fw_first", "fw_second"}
    /\ LET ports == PortConfigs(config.exposed_ports)
           r0 == [ops |-> <<>>, err |-> "", installed |-> FALSE, active |-> FALSE,
                  current_ports |-> {}, configured |-> FALSE, verified |-> TRUE,
                  message |-> NoMessage, ports_changed |-> FALSE]
       IN \E r \in configure_ports_on(fw_rules, fw_active, {r0}, ports) :
          \E effect \in { b \in BOOLEAN : b => TransportFailed(r.ops) # {} } :
             /\ fw_rules' = fw_rules \cup RulesAdded(r.ops, Effective(r.ops, effect))
             /\ fw_active' = (fw_active
                                \/ \E i \in Effective(r.ops, effect) :
                                      r.ops[i].cmd = "echo 'y' | ufw enable")
             /\ ops' = r.ops
             /\ fw_runs' = Append([k \in 1..Len(fw_runs) |->
                                       [fw_runs[k] EXCEPT !.current_ports = {}]],
                                  [err |-> r.err,
                                   current_ports |-> r.current_ports,
                                   added |-> RulesAdded(r.ops, AddRuleOps(r.ops)),
                                   after |-> fw_rules'])
    /\ pc' = IF pc = "fw_first" THEN "fw_second" ELSE "done"
    /\ UNCHANGED ssh_target
    /\ UNCHANGED <<nservices, attempts, status, result, events, health_events,
                   last_status, last_result, config, args, dcd_exists, trace,
                   polls, sleeps, nFailed, nStarting>>
    /\ UNCHANGED <<syncVars, sshVars, uiVars, sftpVars, execVars, mgrVars>>

-----------------------------------------------------------------------------
(* cli/up.rs, cli/ui.rs, main.rs: Up::run from the creation of the         *)
(* progress channel, and the UI task handle_deployer_events                *)

\* the events one step of deploy sends: StepStarted, then StepFailed, or
\* (for Deploy Services: after the two events of each poll of the health
\* loop) StepCompleted
step_events(step, failed, npolls) ==
    <<Event("StepStarted", step, "")>>
    \o (IF failed THEN <<Event("StepFailed", step, "error")>>
        ELSE (IF step = SERVICES
              THEN [k \in 1..(2 * npolls) |->
                       IF k % 2 = 1
                       THEN HealthEvent("HealthCheckAttempt", (k + 1) \div 2,
                                        HEALTH_CHECK_RETRIES, "", 0)
                       ELSE HealthEvent("HealthCheckStatus", 0, 0, "", 0)]
              ELSE <<>>)
             \o <<Event("StepCompleted", step, "")>>)

\* the events deploy sends, in order, in a run whose step `failed_step`
\* returns an error ("" when none does) and whose health loop polls `npolls`
\* times
deploy_events(failed_step, npolls) ==
    LET last == IF failed_step = "" THEN Len(Pipeline)
                ELSE CHOOSE k \in 1..Len(Pipeline) : Pipeline[k] = failed_step
        of_step(k) == IF k > last THEN <<>>
                      ELSE step_events(Pipeline[k], Pipeline[k] = failed_step, npolls)
    IN <<Event("StepStarted", "Starting Deployment", "")>>
       \o of_step(1) \o of_step(2) \o of_step(3) \o of_step(4)

\* the events of the run Up::run makes
UpEvents == deploy_events(up_input.failed_step, up_input.polls)

\* variant: a send on a channel whose receiver is gone waits for room
send_ready_waits(queue, receiver_open) == Len(queue) < PROGRESS_CHANNEL_CAPACITY

\* whether `sender.send(event).await` returns: it waits while the queue is
\* full, and returns at once (with an error) when the receiver is gone
send_ready(queue, receiver_open) ==
    ~receiver_open \/ Len(queue) < PROGRESS_CHANNEL_CAPACITY

\* variant: the UI task stops at the first completed step
ui_breaks_on_completed(event) == event.type = "StepCompleted"

\* the `break` of handle_deployer_events
ui_breaks(event) == event.type = "StepFailed"

\* variant: the health of the services is not looked at
up_result_of_deploy_only(failed_step, services_healthy, no_health_check) ==
    IF failed_step # "" THEN "err" ELSE "ok"

\* what Up::run returns after deploy: the deploy error, else an error when
\* the services are not healthy and --no-health-check was not given
up_result_of(failed_step, services_healthy, no_health_check) ==
    IF failed_step # "" THEN "err"
    ELSE IF ~services_healthy /\ ~no_health_check THEN "err"
    ELSE "ok"

\* main: process::exit(1) on an error of the command
exit_code(res) == IF res = "err" THEN 1 ELSE 0

\* Up::run creates the channel and spawns the UI task, unless --no-progress
UpSpawn ==
    /\ up_pc = "spawn"
    /\ up_pc' = "deploy"
    /\ ui_pc' = IF up_input.no_progress THEN "none" ELSE "running"
    /\ UNCHANGED <<up_input, up_sent, send_failures, chan, ui_received, up_result>>
    /\ UNCHANGED <<deployVars, syncVars, sshVars, fwVars, sftpVars, execVars, mgrVars>>

\* one call of send_event (or of send_event_local) by deploy: nothing
\* without a sender, the event queued when the receiver is there, a logged
\* failure when it is gone
SendEvent ==
    /\ up_pc = "deploy"
    /\ up_sent < Len(UpEvents)
    /\ up_sent' = up_sent + 1
    /\ IF up_input.no_progress
       THEN UNCHANGED <<chan, send_failures>>
       ELSE /\ send_ready(chan, ui_pc = "running")
            /\ IF ui_pc = "running"
               THEN chan' = Append(chan, UpEvents[up_sent + 1])
                    /\ UNCHANGED send_failures
               ELSE send_failures' = send_failures + 1 /\ UNCHANGED chan
    /\ UNCHANGED <<up_pc, up_input, ui_pc, ui_received, up_result>>
    /\ UNCHANGED <<deployVars, syncVars, sshVars, fwVars, sftpVars, execVars, mgrVars>>

\* deploy returns (with a status that says whether the services are healthy,
\* when it returns Ok) and Up::run drops the deployer, and the sender with it
DeployReturns ==
    /\ up_pc = "deploy"
    /\ up_sent = Len(UpEvents)
    /\ up_pc' = IF up_input.no_progress THEN "result" ELSE "join"
    /\ \E healthy \in BOOLEAN :
          /\ up_input.failed_step # "" => ~healthy
          /\ up_input' = [up_input EXCEPT !.services_healthy = healthy]
    /\ UNCHANGED <<up_sent, send_failures, chan, ui_pc, ui_received, up_result>>
    /\ UNCHANGED <<deployVars, syncVars, sshVars, fwVars, sftpVars, execVars, mgrVars>>

\* one iteration of the `while let Some(event) = receiver.recv().await`
UiReceive ==
    /\ ui_pc = "running"
    /\ chan # <<>>
    /\ ui_received' = Append(ui_received, Head(chan))
    /\ chan' = Tail(chan)
    /\ ui_pc' = IF ui_breaks(Head(chan)) THEN "exited" ELSE "running"
    /\ UNCHANGED <<up_pc, up_input, up_sent, send_failures, up_result>>
    /\ UNCHANGED <<deployVars, syncVars, sshVars, fwVars, sftpVars, execVars, mgrVars>>

\* recv returns None: the queue is empty and the sender was dropped
UiChannelClosed ==
    /\ ui_pc = "running"
    /\ chan = <<>>
    /\ up_pc \in {"join", "result", "done"}
    /\ ui_pc' = "exited"
    /\ UNCHANGED <<up_pc, up_input, up_sent, send_failures, chan, ui_received, up_result>>
    /\ UNCHANGED <<deployVars, syncVars, sshVars, fwVars, sftpVars, execVars, mgrVars>>

\* the UI task ends early (it panics, or is cancelled): the receiver is
\* dropped with what is queued
UiDropped ==
    /\ ui_pc = "running"
    /\ up_pc = "deploy"
    /\ ui_pc' = "dropped"
    /\ UNCHANGED <<up_pc, up_input, up_sent, send_failures, chan, ui_received, up_result>>
    /\ UNCHANGED <<deployVars, syncVars, sshVars, fwVars, sftpVars, execVars, mgrVars>>

\* `ui_task.await` returns
UpJoin ==
    /\ up_pc = "join"
    /\ ui_pc \in {"exited", "dropped"}
    /\ up_pc' = "result"
    /\ UNCHANGED <<up_input, up_sent, send_failures, chan, ui_pc, ui_received, up_result>>
    /\ UNCHANGED <<deployVars, syncVars, sshVars, fwVars, sftpVars, execVars, mgrVars>>

\* the `match deploy_result` and the health check at the end of Up::run
UpReturns ==
    /\ up_pc = "result"
    /\ up_result' = up_result_of(up_input.failed_step, up_input.services_healthy,
                                 up_input.no_health_check)
    /\ up_pc' = "done"
    /\ UNCHANGED <<up_input, up_sent, send_failures, chan, ui_pc, ui_received>>
    /\ UNCHANGED <<deployVars, syncVars, sshVars, fwVars, sftpVars, execVars, mgrVars>>

-----------------------------------------------------------------------------
(* executor/ssh_executor.rs: calls of SshClient::upload_file_internal on   *)
(* one connection. upload_file takes `&self`, so calls may overlap; the    *)
(* mutex around the `sftp` field is held by one call at a time.            *)

\* a call of upload_file_internal: where it is, the session it created in
\* get_sftp_session (0: none), and the session it wrote through (0: none)
Upload(at, session, used) == [pc |-> at, session |-> session, used |-> used]

\* the mutex of `sftp` is held by the call that is writing its file
sftp_locked == \E t \in DOMAIN upload_pc : upload_pc[t].pc = "writing"

\* upload_file_internal is called
UploadBegin ==
    /\ \E t \in DOMAIN upload_pc :
          /\ upload_pc[t].pc = "idle"
          /\ upload_pc' = [upload_pc EXCEPT ![t].pc = "check"]
    /\ UNCHANGED <<sftp, sftp_created>>
    /\ UNCHANGED <<deployVars, syncVars, sshVars, fwVars, uiVars, execVars, mgrVars>>

\* get_sftp_session, its first block: under the lock, return the stored
\* session when there is one; the lock is released at the end of the block
SftpCheck ==
    /\ ~sftp_locked
    /\ \E t \in DOMAIN upload_pc :
          /\ upload_pc[t].pc = "check"
          /\ upload_pc' = [upload_pc EXCEPT
                              ![t].pc = IF sftp # 0 THEN "lock" ELSE "open"]
    /\ UNCHANGED <<sftp, sftp_created>>
    /\ UNCHANGED <<deployVars, syncVars, sshVars, fwVars, uiVars, execVars, mgrVars>>

\* get_sftp_session without the lock: open a channel, request the subsystem,
\* SftpSession::new; any of them may fail
SftpOpen ==
    /\ \E t \in DOMAIN upload_pc :
          /\ upload_pc[t].pc = "open"
          /\ \E opened \in BOOLEAN :
                IF opened
                THEN /\ sftp_created' = sftp_created + 1
                     /\ upload_pc' = [upload_pc EXCEPT ![t].pc = "store",
                                                       ![t].session = sftp_created + 1]
                ELSE /\ upload_pc' = [upload_pc EXCEPT ![t].pc = "failed"]
                     /\ UNCHANGED sftp_created
    /\ UNCHANGED sftp
    /\ UNCHANGED <<deployVars, syncVars, sshVars, fwVars, uiVars, execVars, mgrVars>>

\* get_sftp_session, its end: lock again and `*guard = Some(sftp)`
SftpStore ==
    /\ ~sftp_locked
    /\ \E t \in DOMAIN upload_pc :
          /\ upload_pc[t].pc = "store"
          /\ sftp' = upload_pc[t].session
          /\ upload_pc' = [upload_pc EXCEPT ![t].pc = "lock"]
    /\ UNCHANGED sftp_created
    /\ UNCHANGED <<deployVars, syncVars, sshVars, fwVars, uiVars, execVars, mgrVars>>

\* upload_file_internal locks the session it was given
UploadLock ==
    /\ ~sftp_locked
    /\ \E t \in DOMAIN upload_pc :
          /\ upload_pc[t].pc = "lock"
          /\ upload_pc' = [upload_pc EXCEPT ![t].pc = "writing", ![t].used = sftp]
    /\ UNCHANGED <<sftp, sftp_created>>
    /\ UNCHANGED <<deployVars, syncVars, sshVars, fwVars, uiVars, execVars, mgrVars>>

\* the file is opened, written and flushed through the session, or one of
\* these fails; the lock is released at the return
UploadWrite ==
    /\ \E t \in DOMAIN upload_pc :
          /\ upload_pc[t].pc = "writing"
          /\ \E written \in BOOLEAN :
                upload_pc' = [upload_pc EXCEPT
                                 ![t].pc = IF written THEN "done" ELSE "failed"]
    /\ UNCHANGED <<sftp, sftp_created>>
    /\ UNCHANGED <<deployVars, syncVars, sshVars, fwVars, uiVars, execVars, mgrVars>>

-----------------------------------------------------------------------------
(* executor/types.rs, executor/ssh_executor.rs: one call of                *)
(* SshClient::execute_command_internal                                     *)

\* CommandOutput::new
CommandOutput_new == [stdout |-> <<>>, stderr |-> <<>>, exit_code |-> 0]

NoExecResult == [kind |-> "none", output |-> CommandOutput_new]

\* CommandResult::is_success
is_success(res) == res.output.exit_code = 0

\* the messages of a channel: output, error output, the exit status of the
\* command, and the others (the signal that ended it, end of file, ...)
ChannelMsg(type, data, exit_status) ==
    [type |-> type, data |-> data, exit_status |-> exit_status]

ChannelMsgs ==
    { ChannelMsg("Data", "out", 0), ChannelMsg("ExtendedData", "err", 0),
      ChannelMsg("ExitStatus", "", 0), ChannelMsg("ExitStatus", "", 1),
      ChannelMsg("ExitSignal", "", 0), ChannelMsg("Eof", "", 0) }

\* the `match msg` of the loop over `channel.wait()`
on_channel_msg(out, msg) ==
    IF msg.type = "Data" THEN [out EXCEPT !.stdout = Append(@, msg.data)]
    ELSE IF msg.type = "ExtendedData" THEN [out EXCEPT !.stderr = Append(@, msg.data)]
    ELSE IF msg.type = "ExitStatus" THEN [out EXCEPT !.exit_code = msg.exit_status]
    ELSE out

\* channel_open_session and exec, each of which may fail, then
\* `CommandOutput::new()`
ExecOpen ==
    /\ exec_pc = "open"
    /\ \E failure \in {"", "channel_open_session", "exec"} :
          IF failure = ""
          THEN /\ exec_pc' = "wait"
               /\ output' = CommandOutput_new
               /\ UNCHANGED exec_result
          ELSE /\ exec_pc' = "done"
               /\ exec_result' = [kind |-> "err", output |-> CommandOutput_new]
               /\ UNCHANGED output
    /\ UNCHANGED <<channel_msgs, exec_pos>>
    /\ UNCHANGED <<deployVars, syncVars, sshVars, fwVars, uiVars, sftpVars, mgrVars>>

\* one iteration of `while let Some(msg) = channel.wait().await`
ExecWait ==
    /\ exec_pc = "wait"
    /\ exec_pos < Len(channel_msgs)
    /\ output' = on_channel_msg(output, channel_msgs[exec_pos + 1])
    /\ exec_pos' = exec_pos + 1
    /\ UNCHANGED <<exec_pc, channel_msgs, exec_result>>
    /\ UNCHANGED <<deployVars, syncVars, sshVars, fwVars, uiVars, sftpVars, mgrVars>>

\* `channel.wait()` returns None: the channel is closed, and the call
\* returns Ok(CommandResult { command, output })
ExecReturn ==
    /\ exec_pc = "wait"
    /\ exec_pos = Len(channel_msgs)
    /\ exec_result' = [kind |-> "ok", output |-> output]
    /\ exec_pc' = "done"
    /\ UNCHANGED <<channel_msgs, exec_pos, output>>
    /\ UNCHANGED <<deployVars, syncVars, sshVars, fwVars, uiVars, sftpVars, mgrVars>>

-----------------------------------------------------------------------------
(* executor/ssh_executor.rs *)

Hosts == {"example.com", "10.0.0.1"}
ServerKeys == {"k1", "k2"}

\* tokio::net::lookup_host(addr).next(): a name resolves to its address, an
\* address to itself
ResolvedIp(a) == IF a = "example.com" THEN "10.0.0.1" ELSE a

\* A line of the known-hosts file: `host[,host...] key-type base64-key`, a
\* comment or empty line, or a line whose key does not parse
HostLists == { <<"example.com">>, <<"10.0.0.1">>, <<"example.com", "10.0.0.1">> }

KnownHostLines ==
    { [kind |-> "entry", hosts |-> hs, key |-> k] : hs \in HostLists, k \in ServerKeys }
    \cup { [kind |-> "comment", hosts |-> <<>>, key |-> ""],
           [kind |-> "malformed", hosts |-> <<"10.0.0.1">>, key |-> ""] }

KnownHostsFiles ==
    UNION { [1..n -> KnownHostLines] : n \in 0..MaxKnownHostsLines }

\* parse_known_host_line: None for a line that does not parse
parse_known_host_line(line) ==
    IF line.kind = "entry"
    THEN [some |-> TRUE, hosts |-> line.hosts, key |-> line.key]
    ELSE [some |-> FALSE, hosts |-> <<>>, key |-> ""]

\* trusted_keys.entry(host).or_default().push(key) for every host of a line
RECURSIVE push_hosts(_, _, _, _)
push_hosts(map, hosts, key, i) ==
    IF i > Len(hosts) THEN map
    ELSE LET h == hosts[i]
             new == IF h \in DOMAIN map
                    THEN [map EXCEPT ![h] = Append(@, key)]
                    ELSE [x \in DOMAIN map \cup {h} |->
                             IF x = h THEN <<key>> ELSE map[x]]
         IN push_hosts(new, hosts, key, i + 1)

RECURSIVE load_lines(_, _, _)
load_lines(lines, i, map) ==
    IF i > Len(lines) THEN map
    ELSE IF lines[i].kind = "comment" THEN load_lines(lines, i + 1, map)
    ELSE LET p == parse_known_host_line(lines[i])
         IN IF p.some
            THEN load_lines(lines, i + 1, push_hosts(map, p.hosts, p.key, 1))
            ELSE load_lines(lines, i + 1, map)

EmptyMap == [x \in {} |-> <<>>]

\* load_known_hosts: the map from host to the keys stored for it
load_known_hosts(lines) == load_lines(lines, 1, EmptyMap)

\* variant: a known host is checked against its first stored key only
check_server_key_first_only(target_host, trusted, suppress, server_public_key) ==
    IF target_host \in DOMAIN trusted
    THEN IF trusted[target_host][1] = server_public_key
         THEN [accept |-> TRUE, printed |-> ""]
         ELSE [accept |-> FALSE, printed |-> "HOST KEY VERIFICATION FAILED"]
    ELSE [accept |-> TRUE,
          printed |-> IF ~suppress THEN "UNKNOWN HOST KEY DETECTED" ELSE ""]

\* ClientHandler::check_server_key: Ok(accept), and what it prints
check_server_key(target_host, trusted, suppress, server_public_key) ==
    IF target_host \in DOMAIN trusted
    THEN IF \E i \in 1..Len(trusted[target_host]) :
                trusted[target_host][i] = server_public_key
         THEN [accept |-> TRUE, printed |-> ""]
         ELSE [accept |-> FALSE, printed |-> "HOST KEY VERIFICATION FAILED"]
    ELSE [accept |-> TRUE,
          printed |-> IF ~suppress THEN "UNKNOWN HOST KEY DETECTED" ELSE ""]

\* What may happen to one SshClient::connect: the key file does not load;
\* the connection fails before the server's key is seen; the server
\* presents a key, which the handler rejects or accepts; after that the
\* hash negotiation or the authentication may fail.
NoConnection == [made |-> FALSE, presented |-> "", verdict |-> "", printed |-> ""]

SshClient_connect(target_host, trusted, suppress) ==
    { [res |-> "err", error |-> "Failed to load SSH private key", conn |-> NoConnection],
      [res |-> "err", error |-> "Failed to establish SSH connection",
       conn |-> [made |-> TRUE, presented |-> "", verdict |-> "unreached", printed |-> ""]] }
    \cup UNION {
        LET v == check_server_key(target_host, trusted, suppress, k)
            c == [made |-> TRUE, presented |-> k,
                  verdict |-> IF v.accept THEN "accepted" ELSE "rejected",
                  printed |-> v.printed]
        IN IF ~v.accept
           THEN { [res |-> "err", error |-> "Failed to establish SSH connection",
                   conn |-> c] }
           ELSE { [res |-> "err", error |-> "Failed to get best RSA hash", conn |-> c],
                  [res |-> "err", error |-> "authenticate_publickey", conn |-> c],
                  [res |-> "err", error |-> "SSH authentication failed", conn |-> c],
                  [res |-> "ok", error |-> "", conn |-> c] }
        : k \in ServerKeys }

potential_keys == <<"id_rsa", "id_ed25519">>

LogConnection(key, c) ==
    IF c.made
    THEN Append(connections, [key |-> key, target |-> target_host_str,
                              presented |-> c.presented, verdict |-> c.verdict,
                              printed |-> c.printed])
    ELSE connections

\* connect up to the choice of keys: resolve the host, load the trust store,
\* and with an explicit key make the one attempt
SshConnect ==
    /\ ssh_pc = "connect"
    /\ \/ \* lookup_host fails, or known_hosts cannot be read
          /\ \E e \in {"Failed to resolve host", "Failed to read known_hosts file"} :
                ssh_result' = [kind |-> "err", error |-> e]
          /\ ssh_pc' = "done"
          /\ UNCHANGED <<target_host_str, trusted_keys, connections>>
       \/ \* the explicit key file does not exist
          /\ key_path # "none"
          /\ ~key_files[key_path]
          /\ target_host_str' = ResolvedIp(addr)
          /\ trusted_keys' = load_known_hosts(known_hosts)
          /\ ssh_result' = [kind |-> "err", error |-> "Specified SSH key file not found"]
          /\ ssh_pc' = "done"
          /\ UNCHANGED connections
       \/ \* the one attempt with the explicit key
          /\ key_path # "none"
          /\ key_files[key_path]
          /\ target_host_str' = ResolvedIp(addr)
          /\ trusted_keys' = load_known_hosts(known_hosts)
          /\ \E out \in SshClient_connect(ResolvedIp(addr), load_known_hosts(known_hosts),
                                           suppress_unknown_host_warning) :
                /\ ssh_result' = [kind |-> out.res, error |-> out.error]
                /\ connections' =
                      IF out.conn.made
                      THEN Append(connections,
                                  [key |-> key_path, target |-> ResolvedIp(addr),
                                   presented |-> out.conn.presented,
                                   verdict |-> out.conn.verdict,
                                   printed |-> out.conn.printed])
                      ELSE connections
          /\ ssh_pc' = "done"
       \/ \* no explicit key: go on to the default keys
          /\ key_path = "none"
          /\ target_host_str' = ResolvedIp(addr)
          /\ trusted_keys' = load_known_hosts(known_hosts)
          /\ ssh_pc' = "probe"
          /\ UNCHANGED <<ssh_result, connections>>
    /\ UNCHANGED <<known_hosts, addr, key_path, key_files,
                   suppress_unknown_host_warning, key_index, connection_errors,
                   deployVars, syncVars, extVars>>

\* what the probing loop does after an attempt with one key: return on Ok,
\* else record the error and go on to the next key
probe_next(res) == IF res = "ok" THEN "done" ELSE "probe"

\* one iteration of `for key_path in &potential_keys`
SshProbeKey ==
    /\ ssh_pc = "probe"
    /\ key_index <= Len(potential_keys)
    /\ LET key == potential_keys[key_index]
       IN IF ~key_files[key]
          THEN /\ key_index' = key_index + 1
               /\ UNCHANGED <<ssh_pc, ssh_result, connection_errors, connections>>
          ELSE \E out \in SshClient_connect(target_host_str, trusted_keys,
                                            suppress_unknown_host_warning) :
                  /\ connections' = LogConnection(key, out.conn)
                  /\ ssh_pc' = probe_next(out.res)
                  /\ IF out.res = "ok"
                     THEN /\ ssh_result' = [kind |-> "ok", error |-> ""]
                          /\ UNCHANGED <<key_index, connection_errors>>
                     ELSE /\ connection_errors' =
                                Append(connection_errors, [key |-> key, error |-> out.error])
                          /\ key_index' = key_index + 1
                          /\ UNCHANGED ssh_result
    /\ UNCHANGED <<known_hosts, addr, key_path, key_files,
                   suppress_unknown_host_warning, target_host_str, trusted_keys,
                   deployVars, syncVars, extVars>>

\* after the loop: every key failed, or there was none
SshProbeEnd ==
    /\ ssh_pc = "probe"
    /\ key_index > Len(potential_keys)
    /\ ssh_result' =
          IF \A i \in 1..Len(potential_keys) : ~key_files[potential_keys[i]]
          THEN [kind |-> "err", error |-> "No SSH keys found"]
          ELSE [kind |-> "err", error |-> "Failed to connect with any available SSH keys"]
    /\ ssh_pc' = "done"
    /\ UNCHANGED <<known_hosts, addr, key_path, key_files,
                   suppress_unknown_host_warning, target_host_str, trusted_keys,
                   key_index, connection_errors, connections, deployVars, syncVars, extVars>>

-----------------------------------------------------------------------------
(* Specifications *)

PortMapping(target, published, protocol) ==
    [target |-> target, published |-> published, protocol |-> protocol]

\* the project descriptions deploy is run on
Configs ==
    [compose_files : {<<join(ProjectDir, "docker-compose.yml")>>},
     env_files : {<<>>},
     local_references : {<<>>},
     has_env_vars : BOOLEAN,
     exposed_ports : { <<>>,
                       <<PortMapping(80, 8080, "none")>>,
                       <<PortMapping(53, 5353, "tcp/udp")>> }]

\* the arguments of a destroy that was not called
NoArgs == [remove_volumes |-> FALSE, remove_images |-> FALSE, force |-> FALSE]

FwIdle ==
    /\ fw_rules = {}
    /\ fw_active = FALSE
    /\ fw_runs = <<>>
    /\ ssh_target = parse_ssh_target(TargetStr("", "", 0))

UiIdle ==
    /\ up_pc = "idle"
    /\ up_input = [no_progress |-> FALSE, no_health_check |-> FALSE,
                   failed_step |-> "", polls |-> 0, services_healthy |-> FALSE]
    /\ up_sent = 0
    /\ send_failures = 0
    /\ chan = <<>>
    /\ ui_pc = "idle"
    /\ ui_received = <<>>
    /\ up_result = "none"

SftpIdle ==
    /\ sftp = 0
    /\ upload_pc = <<>>
    /\ sftp_created = 0

ExecIdle ==
    /\ exec_pc = "idle"
    /\ channel_msgs = <<>>
    /\ exec_pos = 0
    /\ output = CommandOutput_new
    /\ exec_result = NoExecResult

MgrIdle == manager_files = NoManagerFiles

ExtIdle == FwIdle /\ UiIdle /\ SftpIdle /\ ExecIdle /\ MgrIdle

LoopIdle ==
    /\ attempts = 0
    /\ health_events = <<>>
    /\ last_status = NoStatus
    /\ last_result = NoHealthResult
    /\ polls = 0
    /\ sleeps = 0
    /\ nFailed = 0
    /\ nStarting = 0

\* the state of the variables of a flow that is not running
DeployIdle ==
    /\ pc = "idle"
    /\ nservices = 0
    /\ config = [compose_files |-> <<>>, env_files |-> <<>>, has_env_vars |-> FALSE,
                 exposed_ports |-> <<>>, local_references |-> <<>>]
    /\ dcd_exists = FALSE
    /\ args = NoArgs
    /\ status = NewStatus
    /\ result = NoResult
    /\ ops = <<>>
    /\ events = <<>>
    /\ trace = <<>>
    /\ LoopIdle

SyncIdle ==
    /\ sync_plan = [compose_files |-> <<>>, env_files |-> <<>>,
                    reference_files |-> <<>>, files |-> <<>>]
    /\ local_fs = <<>>
    /\ remote_fs = <<>>
    /\ sync_pos = 0
    /\ sync_status = NoSyncStatus
    /\ sync_log = <<>>
    /\ sync_returns = <<>>

SshIdle ==
    /\ ssh_pc = "idle"
    /\ known_hosts = <<>>
    /\ addr = ""
    /\ key_path = "none"
    /\ key_files = [k \in {"id_rsa", "id_ed25519", "identity"} |-> FALSE]
    /\ suppress_unknown_host_warning = FALSE
    /\ target_host_str = ""
    /\ trusted_keys = EmptyMap
    /\ key_index = 1
    /\ connection_errors = <<>>
    /\ connections = <<>>
    /\ ssh_result = [kind |-> "none", error |-> ""]

\* the deploy flow from Deployer::deploy's first line
DeployInit ==
    /\ SshIdle
    /\ ExtIdle
    /\ SyncIdle
    /\ pc = "prepare"
    /\ nservices = 1
    /\ config \in Configs
    /\ dcd_exists \in BOOLEAN
    /\ args = NoArgs
    /\ status = NewStatus
    /\ result = NoResult
    /\ ops = <<>>
    /\ events = <<>>
    /\ trace = <<>>
    /\ LoopIdle

DeployNext ==
    \/ PrepareEnvironment
    \/ SyncFiles
    \/ ConfigureFirewall
    \/ DeployServices
    \/ HealthPoll
    \/ HealthSleep

\* Deployer::deploy on a connected executor
SpecDeploy == DeployInit /\ [][DeployNext]_vars

\* the remote operations of a deploy_services that reached its health loop
\* on a host that had the runtime installed
LoopEntryOps ==
    Tagged(SERVICES,
           (CHOOSE r \in deploy_services_start :
               /\ r.err = ""
               /\ TransportFailed(r.ops) = {}
               /\ \A x \in deploy_services_start :
                      x.err = "" => Len(r.ops) <= Len(x.ops)).ops)

\* deploy_services at the entry of its health loop (`let mut attempts = 0`),
\* on a host where the earlier steps succeeded and changed nothing
LoopInit ==
    /\ SshIdle
    /\ ExtIdle
    /\ SyncIdle
    /\ pc = "health_poll"
    /\ nservices \in 0..MaxServices
    /\ config = [compose_files |-> <<join(ProjectDir, "docker-compose.yml")>>,
                 env_files |-> <<>>,
                 has_env_vars |-> FALSE, exposed_ports |-> <<>>,
                 local_references |-> <<>>]
    /\ dcd_exists = FALSE
    /\ args = NoArgs
    /\ status = NewStatus
    /\ result = NoResult
    /\ ops = LoopEntryOps
    /\ events = <<Event("StepStarted", "Starting Deployment", ""),
                  Event("StepStarted", PREPARE, ""), Event("StepCompleted", PREPARE, ""),
                  Event("StepStarted", SYNC, ""), Event("StepCompleted", SYNC, ""),
                  Event("StepStarted", FIREWALL, ""), Event("StepCompleted", FIREWALL, ""),
                  Event("StepStarted", SERVICES, "")>>
    /\ trace = <<[step |-> PREPARE, outcome |-> "ok", transport |-> {}],
                 [step |-> SYNC, outcome |-> "ok", transport |-> {}],
                 [step |-> FIREWALL, outcome |-> "ok", transport |-> {}],
                 [step |-> SERVICES, outcome |-> "running", transport |-> {}]>>
    /\ LoopIdle

LoopNext ==
    \/ HealthPoll
    \/ HealthSleep

SpecLoop == LoopInit /\ [][LoopNext]_vars

\* Up::run awaiting `deployer.deploy()` (up.rs:107), with or without
\* --no-health-check, when deploy_services enters its health loop; with
\* --no-progress the events deploy hands to send_event go nowhere
UpLoopInit ==
    /\ SshIdle
    /\ FwIdle
    /\ SftpIdle
    /\ ExecIdle
    /\ MgrIdle
    /\ SyncIdle
    /\ up_pc = "deploy"
    /\ \E nh \in BOOLEAN :
          up_input = [no_progress |-> TRUE, no_health_check |-> nh,
                      failed_step |-> "", polls |-> 0, services_healthy |-> FALSE]
    /\ up_sent = 0
    /\ send_failures = 0
    /\ chan = <<>>
    /\ ui_pc = "none"
    /\ ui_received = <<>>
    /\ up_result = "none"
    /\ pc = "health_poll"
    /\ nservices \in 0..MaxServices
    /\ config = [compose_files |-> <<join(ProjectDir, "docker-compose.yml")>>,
                 env_files |-> <<>>,
                 has_env_vars |-> FALSE, exposed_ports |-> <<>>,
                 local_references |-> <<>>]
    /\ dcd_exists = FALSE
    /\ args = NoArgs
    /\ status = NewStatus
    /\ result = NoResult
    /\ ops = LoopEntryOps
    /\ events = <<Event("StepStarted", "Starting Deployment", ""),
                  Event("StepStarted", PREPARE, ""), Event("StepCompleted", PREPARE, ""),
                  Event("StepStarted", SYNC, ""), Event("StepCompleted", SYNC, ""),
                  Event("StepStarted", FIREWALL, ""), Event("StepCompleted", FIREWALL, ""),
                  Event("StepStarted", SERVICES, "")>>
    /\ trace = <<[step |-> PREPARE, outcome |-> "ok", transport |-> {}],
                 [step |-> SYNC, outcome |-> "ok", transport |-> {}],
                 [step |-> FIREWALL, outcome |-> "ok", transport |-> {}],
                 [step |-> SERVICES, outcome |-> "running", transport |-> {}]>>
    /\ LoopIdle

UpLoopNext ==
    \/ HealthPoll
    \/ HealthSleep

SpecUpLoop == UpLoopInit /\ [][UpLoopNext]_vars

\* SshCommandExecutor::connect
SshInit ==
    /\ SyncIdle
    /\ DeployIdle
    /\ ExtIdle
    /\ ssh_pc = "connect"
    /\ known_hosts \in KnownHostsFiles
    /\ addr \in Hosts
    /\ suppress_unknown_host_warning \in BOOLEAN
    /\ \/ /\ key_path = "identity"
          /\ key_files \in { [k \in {"id_rsa", "id_ed25519", "identity"} |->
                                 k = "identity" /\ b] : b \in BOOLEAN }
       \/ /\ key_path = "none"
          /\ key_files \in { [k \in {"id_rsa", "id_ed25519", "identity"} |->
                                 (k = "id_rsa" /\ b1) \/ (k = "id_ed25519" /\ b2)] :
                              b1 \in BOOLEAN, b2 \in BOOLEAN }
    /\ target_host_str = ""
    /\ trusted_keys = EmptyMap
    /\ key_index = 1
    /\ connection_errors = <<>>
    /\ connections = <<>>
    /\ ssh_result = [kind |-> "none", error |-> ""]

SshNext ==
    \/ SshConnect
    \/ SshProbeKey
    \/ SshProbeEnd

SpecSsh == SshInit /\ [][SshNext]_vars

\* the destroy flow from Deployer::destroy's first line
DestroyInit ==
    /\ SshIdle
    /\ ExtIdle
    /\ SyncIdle
    /\ pc = "destroy"
    /\ nservices \in 0..MaxServices
    /\ config = [compose_files |-> <<join(ProjectDir, "docker-compose.yml")>>,
                 env_files |-> <<>>,
                 has_env_vars |-> FALSE, exposed_ports |-> <<>>,
                 local_references |-> <<>>]
    /\ dcd_exists \in BOOLEAN
    /\ args \in [remove_volumes : BOOLEAN, remove_images : BOOLEAN, force : BOOLEAN]
    /\ status = NewStatus
    /\ result = NoResult
    /\ ops = <<>>
    /\ events = <<>>
    /\ trace = <<>>
    /\ LoopIdle

DestroyNext ==
    \/ DestroyCheck
    \/ DestroyDown
    \/ DestroyRemove

SpecDestroy == DestroyInit /\ [][DestroyNext]_vars

\* a destroy from its first line, followed by a destroy or a status, for a
\* project of one service or none
AgainInit ==
    /\ SshIdle
    /\ ExtIdle
    /\ SyncIdle
    /\ pc = "destroy"
    /\ nservices \in {0, 1}
    /\ config = [compose_files |-> <<join(ProjectDir, "docker-compose.yml")>>,
                 env_files |-> <<>>,
                 has_env_vars |-> FALSE, exposed_ports |-> <<>>,
                 local_references |-> <<>>]
    /\ dcd_exists = FALSE
    /\ args \in [remove_volumes : BOOLEAN, remove_images : {FALSE}, force : BOOLEAN]
    /\ status = NewStatus
    /\ result = NoResult
    /\ ops = <<>>
    /\ events = <<>>
    /\ trace = <<>>
    /\ LoopIdle

AgainNext ==
    \/ DestroyCheckOnHost
    \/ DestroyDown
    \/ DestroyRemove
    \/ RunAgain
    \/ StatusConnectOnHost
    \/ StatusCheck

SpecAgain == AgainInit /\ [][AgainNext]_vars

\* the status flow from Deployer::get_status's first line
StatusInit ==
    /\ SshIdle
    /\ ExtIdle
    /\ SyncIdle
    /\ pc = "status"
    /\ nservices \in 0..MaxServices
    /\ config = [compose_files |-> <<join(ProjectDir, "docker-compose.yml")>>,
                 env_files |-> <<>>,
                 has_env_vars |-> FALSE, exposed_ports |-> <<>>,
                 local_references |-> <<>>]
    /\ dcd_exists \in BOOLEAN
    /\ args = NoArgs
    /\ status = NewStatus
    /\ result = NoResult
    /\ ops = <<>>
    /\ events = <<>>
    /\ trace = <<>>
    /\ LoopIdle

StatusNext ==
    \/ StatusConnect
    \/ StatusCheck

SpecStatus == StatusInit /\ [][StatusNext]_vars

\* the local files the projects of the sync flow are made of
SyncLocalPaths ==
    { join(ProjectDir, "docker-compose.yml"),
      join(join(ProjectDir, "prod"), "docker-compose.yml"),
      join(join(ProjectDir, "conf"), "app.conf") }

\* their contents: the two compose files are the same or differ
SyncLocalFiles ==
    { fs \in [SyncLocalPaths -> Hashes] :
        /\ fs[join(ProjectDir, "docker-compose.yml")] = "h1"
        /\ fs[join(join(ProjectDir, "conf"), "app.conf")] = "h1" }

\* the projects the sync flow is run on: one compose file or two with the
\* same file name, with or without a reference into ./conf
SyncConfigs ==
    [compose_files : { <<join(ProjectDir, "docker-compose.yml")>>,
                       <<join(ProjectDir, "docker-compose.yml"),
                         join(join(ProjectDir, "prod"), "docker-compose.yml")>> },
     env_files : {<<>>},
     has_env_vars : {FALSE},
     exposed_ports : {<<>>},
     local_references : { <<>>, <<join(join(ProjectDir, "conf"), "app.conf")>> }]

\* the sync flow from the first call of FileSync::sync_files, on the plan
\* Deployer::sync_files builds for the project, with any remote files
SyncInit ==
    /\ SshIdle
    /\ ExtIdle
    /\ pc = "sync_call"
    /\ nservices = 0
    /\ config = [compose_files |-> <<>>, env_files |-> <<>>, has_env_vars |-> FALSE,
                 exposed_ports |-> <<>>, local_references |-> <<>>]
    /\ dcd_exists = FALSE
    /\ args = NoArgs
    /\ status = NewStatus
    /\ result = NoResult
    /\ ops = <<>>
    /\ events = <<>>
    /\ trace = <<>>
    /\ LoopIdle
    /\ local_fs \in SyncLocalFiles
    /\ \E cfg \in SyncConfigs : sync_plan = SyncPlanOf(cfg, FALSE, local_fs)
    /\ remote_fs \in [{ f.remote : f \in PlanFiles(sync_plan, local_fs) }
                         -> Hashes \cup {"absent"}]
    /\ sync_pos = 1
    /\ sync_status = NoSyncStatus
    /\ sync_log = <<>>
    /\ sync_returns = <<>>

SyncNext ==
    \/ SyncBegin
    \/ SyncNextPair
    \/ SyncReturn

SpecSync == SyncInit /\ [][SyncNext]_vars

\* a project with a file and a directory at its top level
RefLocalFiles ==
    [p \in { join(ProjectDir, "docker-compose.yml"),
             join(ProjectDir, "nginx.conf"),
             join(join(ProjectDir, "conf"), "app.conf") } |->
        IF p = join(ProjectDir, "nginx.conf") THEN "h2" ELSE "h1"]

\* the references of the project: the top-level file, a file of the
\* top-level directory, or both
RefConfigs ==
    [compose_files : {<<join(ProjectDir, "docker-compose.yml")>>},
     env_files : {<<>>},
     has_env_vars : {FALSE},
     exposed_ports : {<<>>},
     local_references : { <<join(ProjectDir, "nginx.conf")>>,
                          <<join(join(ProjectDir, "conf"), "app.conf")>>,
                          <<join(join(ProjectDir, "conf"), "app.conf"),
                            join(ProjectDir, "nginx.conf")>> }]

\* the remote path of a local file of the project
RemoteOf(path) == RemoteRoot \o strip_prefix(path, ProjectDir)

\* the sync flow on the plan Deployer::sync_files builds for a project with
\* references, with any remote files
SyncRefInit ==
    /\ SshIdle
    /\ ExtIdle
    /\ pc = "sync_call"
    /\ nservices = 0
    /\ config \in RefConfigs
    /\ dcd_exists = FALSE
    /\ args = NoArgs
    /\ status = NewStatus
    /\ result = NoResult
    /\ ops = <<>>
    /\ events = <<>>
    /\ trace = <<>>
    /\ LoopIdle
    /\ local_fs = RefLocalFiles
    /\ sync_plan = SyncPlanOf(config, FALSE, local_fs)
    /\ remote_fs \in [{ RemoteOf(p) : p \in DOMAIN local_fs } -> Hashes \cup {"absent"}]
    /\ sync_pos = 1
    /\ sync_status = NoSyncStatus
    /\ sync_log = <<>>
    /\ sync_returns = <<>>

SyncRefNext ==
    \/ SyncBegin
    \/ SyncNextPair
    \/ SyncReturn

SpecSyncRef == SyncRefInit /\ [][SyncRefNext]_vars

\* the local files of the projects whose plan is built
PlanLocalFiles ==
    [p \in { join(ProjectDir, "docker-compose.yml"),
             join(ProjectDir, "nginx.conf"),
             join(join(ProjectDir, "conf"), "app.conf"),
             join(join(join(ProjectDir, "conf"), "tls"), "cert.pem"),
             join(join(ProjectDir, "data"), "seed.sql") } |-> "h1"]

\* the paths a project may reference: files and directories of the project
\* at several depths, the project directory itself, a path of the project
\* that does not exist, and a path outside the project
ReferencePaths ==
    { join(ProjectDir, "nginx.conf"),
      join(join(ProjectDir, "conf"), "app.conf"),
      join(join(join(ProjectDir, "conf"), "tls"), "cert.pem"),
      join(ProjectDir, "data"),
      join(join(ProjectDir, "conf"), "missing.conf"),
      ProjectDir,
      <<"etc", "ssl", "ca.pem">> }

ReferenceLists ==
    UNION { [1..n -> ReferencePaths] : n \in 0..MaxReferences }

\* Deployer::sync_files at its first line, for a project with any references
PlanInit ==
    /\ SshIdle
    /\ ExtIdle
    /\ pc = "plan"
    /\ nservices = 0
    /\ \E refs \in ReferenceLists :
          config = [compose_files |-> <<join(ProjectDir, "docker-compose.yml")>>,
                    env_files |-> <<>>, has_env_vars |-> FALSE,
                    exposed_ports |-> <<>>, local_references |-> refs]
    /\ dcd_exists = FALSE
    /\ args = NoArgs
    /\ status = NewStatus
    /\ result = NoResult
    /\ ops = <<>>
    /\ events = <<>>
    /\ trace = <<>>
    /\ LoopIdle
    /\ sync_plan = [compose_files |-> <<>>, env_files |-> <<>>,
                    reference_files |-> <<>>, files |-> <<>>]
    /\ local_fs = PlanLocalFiles
    /\ remote_fs = <<>>
    /\ sync_pos = 0
    /\ sync_status = NoSyncStatus
    /\ sync_log = <<>>
    /\ sync_returns = <<>>

PlanNext ==
    \/ BuildPlan

SpecPlan == PlanInit /\ [][PlanNext]_vars

\* the targets of the command: `server` and `server:2222`
TargetStrs == { TargetStr("", "server", port) : port \in {0, 2222} }

\* the projects whose ports are configured: one tcp port, one port of
\* protocol "tcp/udp", and both
FwConfigs ==
    [compose_files : {<<join(ProjectDir, "docker-compose.yml")>>},
     env_files : {<<>>},
     local_references : {<<>>},
     has_env_vars : {FALSE},
     exposed_ports : { <<PortMapping(80, 8080, "none")>>,
                       <<PortMapping(53, 5353, "tcp/udp")>>,
                       <<PortMapping(80, 8080, "tcp"), PortMapping(53, 5353, "tcp/udp")>> }]

\* before the first call of configure_ports: a firewall in any state, with
\* any of the desired rules already there
FwInit ==
    /\ SshIdle
    /\ SyncIdle
    /\ UiIdle
    /\ SftpIdle
    /\ ExecIdle
    /\ MgrIdle
    /\ pc = "fw_first"
    /\ nservices = 0
    /\ config \in FwConfigs
    /\ dcd_exists = FALSE
    /\ args = NoArgs
    /\ status = NewStatus
    /\ result = NoResult
    /\ ops = <<>>
    /\ events = <<>>
    /\ trace = <<>>
    /\ LoopIdle
    /\ fw_rules \in SUBSET RulesOf(PortConfigs(config.exposed_ports))
    /\ fw_active \in BOOLEAN
    /\ fw_runs = <<>>
    /\ \E target_str \in TargetStrs : ssh_target = parse_ssh_target(target_str)

FwNext ==
    \/ FwConfigure

SpecFirewall == FwInit /\ [][FwNext]_vars

\* the flags of the command and the runs of deploy Up::run may see: a step
\* fails, or all succeed after some polls of the health loop
UpInputs ==
    { [no_progress |-> np, no_health_check |-> nh, failed_step |-> f,
       polls |-> n, services_healthy |-> FALSE] :
      np \in BOOLEAN, nh \in BOOLEAN, f \in {"", PREPARE, SYNC, FIREWALL, SERVICES},
      n \in 0..MAX_STARTING_ATTEMPTS }

\* Up::run after the connection is made
UpInit ==
    /\ SshIdle
    /\ SyncIdle
    /\ FwIdle
    /\ SftpIdle
    /\ ExecIdle
    /\ MgrIdle
    /\ DeployIdle
    /\ up_pc = "spawn"
    /\ up_input \in { i \in UpInputs :
                        /\ i.failed_step # "" => i.polls = 0
                        /\ i.failed_step = "" => i.polls >= 1 }
    /\ up_sent = 0
    /\ send_failures = 0
    /\ chan = <<>>
    /\ ui_pc = "idle"
    /\ ui_received = <<>>
    /\ up_result = "none"

UpNext ==
    \/ UpSpawn
    \/ SendEvent
    \/ DeployReturns
    \/ UiReceive
    \/ UiChannelClosed
    \/ UiDropped
    \/ UpJoin
    \/ UpReturns

SpecUp == UpInit /\ [][UpNext]_vars

\* a connection that was just made: `sftp: Arc::new(Mutex::new(None))`, and
\* the uploads that will be made on it
SftpInit ==
    /\ SshIdle
    /\ SyncIdle
    /\ FwIdle
    /\ UiIdle
    /\ ExecIdle
    /\ MgrIdle
    /\ DeployIdle
    /\ sftp = 0
    /\ upload_pc = [t \in 1..MaxUploads |-> Upload("idle", 0, 0)]
    /\ sftp_created = 0

SftpNext ==
    \/ UploadBegin
    \/ SftpCheck
    \/ SftpOpen
    \/ SftpStore
    \/ UploadLock
    \/ UploadWrite

SpecSftp == SftpInit /\ [][SftpNext]_vars

\* the messages a channel may deliver, in order, before it closes
ChannelRuns == UNION { [1..n -> ChannelMsgs] : n \in 0..MaxChannelMsgs }

\* a call of execute_command_internal on an open connection
ExecInit ==
    /\ SshIdle
    /\ SyncIdle
    /\ FwIdle
    /\ UiIdle
    /\ SftpIdle
    /\ MgrIdle
    /\ DeployIdle
    /\ exec_pc = "open"
    /\ channel_msgs \in ChannelRuns
    /\ exec_pos = 0
    /\ output = CommandOutput_new
    /\ exec_result = NoExecResult

ExecNext ==
    \/ ExecOpen
    \/ ExecWait
    \/ ExecReturn

SpecExec == ExecInit /\ [][ExecNext]_vars

-----------------------------------------------------------------------------
(* Properties of the health loop (SpecLoop) *)

\* the latest poll has been made and the loop has acted on its result
Polled == polls > 0 /\ pc \in {"health_sleep", "done"}
Retried == pc = "health_sleep"
Ended == pc = "done"

IsHealthySvc(s) == s.state = "running" /\ s.health \in {"", "healthy"}
IsStartingSvc(s) == ~IsHealthySvc(s) /\ s.state = "running" /\ s.health = "starting"
IsFailedSvc(s) == ~IsHealthySvc(s) /\ ~IsStartingSvc(s)
Named(seq) ==
    [i \in 1..Len(seq) |->
        [name |-> seq[i].service, state |-> seq[i].state, health |-> seq[i].health]]

\* C3: the classification is determined by the service list of the status
\* query alone. A service is healthy iff running with health "" or "healthy";
\* a non-healthy one is starting iff running with health "starting", else
\* failed. The result is Failed(failed services, then starting services) if
\* any service is failed, else Starting(starting services) if any is starting,
\* else NoServices for the empty list, else Healthy.
C3_Classification ==
    (Polled /\ last_status.ok) =>
        LET svcs == last_status.services
            failed == SelectSeq(svcs, IsFailedSvc)
            starting == SelectSeq(svcs, IsStartingSvc)
        IN /\ last_result.ok
           /\ IF failed # <<>>
              THEN last_result.kind = "Failed"
                   /\ last_result.list = Named(failed \o starting)
              ELSE IF starting # <<>>
              THEN last_result.kind = "Starting" /\ last_result.list = Named(starting)
              ELSE IF svcs = <<>>
              THEN last_result.kind = "NoServices" /\ last_result.list = <<>>
              ELSE last_result.kind = "Healthy" /\ last_result.list = <<>>

\* a starting service listed before a failed one: the result is Failed and
\* lists the failed service first
C3_Witness ==
    /\ Polled
    /\ last_status.ok
    /\ Len(last_status.services) = 2
    /\ IsStartingSvc(last_status.services[1])
    /\ IsFailedSvc(last_status.services[2])
    /\ last_result.kind = "Failed"
    /\ last_result.list[1].name = last_status.services[2].service

\* C5: one counter counts every poll; a Failed classification on poll n is
\* retried iff n < 5, a Starting classification on poll n iff n < 15; no run
\* of the loop makes more than 15 polls.
C5_SharedCounter ==
    /\ attempts = polls
    /\ polls <= 15
    /\ (Polled /\ last_result.ok /\ last_result.kind = "Failed")
          => (Retried <=> attempts < 5)
    /\ (Polled /\ last_result.ok /\ last_result.kind = "Starting")
          => (Retried <=> attempts < 15)

\* the 15th poll ends a loop that saw Failed polls as well as Starting ones
C5_Witness ==
    /\ Ended
    /\ polls = 15
    /\ last_result.kind = "Starting"
    /\ nFailed > 0

\* C6 as claimed: a Failed classification is retried whenever fewer than 5
\* polls so far were classified Failed, however many Starting polls preceded
C6_IndependentCeilings ==
    (Polled /\ last_result.ok /\ last_result.kind = "Failed" /\ nFailed < 5) => Retried

\* C6 amended: Starting polls consume the short budget too. A Failed
\* classification is retried iff the polls made so far, Failed and Starting
\* together and this one included, are fewer than 5.
C6_CumulativeCeilings ==
    (Polled /\ last_result.ok /\ last_result.kind = "Failed")
        => (Retried <=> nFailed + nStarting < 5)

\* the first Failed poll, after four Starting polls, ends the loop
C6_Witness ==
    /\ Ended
    /\ last_result.kind = "Failed"
    /\ nFailed = 1
    /\ nStarting = 4

\* C7: while every poll is classified Failed the loop makes at most 5 polls
\* with one wait between consecutive polls; it ends on the 5th, after 4
\* waits, with services_healthy false and a message that names, in order,
\* every service of the last Failed list with its state and health.
C7_AllFailed ==
    (polls > 0 /\ nFailed = polls) =>
        /\ polls <= 5
        /\ sleeps = (IF pc = "health_poll" THEN polls ELSE polls - 1)
        /\ Retried => polls < 5
        /\ Ended =>
              /\ polls = 5
              /\ status.services_healthy = FALSE
              /\ status.message.kind = "Definitively unhealthy services found"
              /\ Len(status.message.details) = Len(last_result.list)
              /\ \A i \in 1..Len(last_result.list) :
                    /\ status.message.details[i].name = last_result.list[i].name
                    /\ status.message.details[i].state = last_result.list[i].state
                    /\ status.message.details[i].health =
                          (IF last_result.list[i].health = "" THEN "no health check"
                           ELSE last_result.list[i].health)

\* five Failed polls, the last one listing two services
C7_Witness ==
    /\ Ended
    /\ nFailed = 5
    /\ polls = 5
    /\ sleeps = 4
    /\ Len(last_result.list) = 2
    /\ Len(status.message.details) = 2

\* C8: after Starting polls only, a Healthy poll k <= 15 ends the loop at
\* poll k with services_healthy true; while every poll is Starting the loop
\* goes on up to the 15th poll and ends there with services_healthy false
\* and a timeout message naming the services still starting.
C8_StartingThenHealthy ==
    /\ (Polled /\ last_result.kind = "Healthy" /\ nStarting = polls - 1) =>
          /\ Ended
          /\ polls <= 15
          /\ sleeps = polls - 1
          /\ status.services_healthy = TRUE
    /\ (Polled /\ nStarting = polls) =>
          /\ polls <= 15
          /\ Retried <=> polls < 15
          /\ Ended =>
                /\ status.services_healthy = FALSE
                /\ status.message.kind =
                      "Services still in 'starting' state after extended timeout"
                /\ last_result.list # <<>>
                /\ status.message.details = last_result.list

\* fifteen Starting polls
C8_Witness ==
    /\ Ended
    /\ nStarting = 15
    /\ polls = 15
    /\ sleeps = 14
    /\ status.services_healthy = FALSE
    /\ Len(status.message.details) = 2

\* C9: a poll classified Healthy or NoServices ends the loop with no wait
\* after it, after the loop has ended no poll and no wait follows, and at
\* the end services_healthy is true iff the last poll was classified Healthy.
C9_StopAtOnce ==
    /\ [](/\ (Polled /\ last_result.ok /\ last_result.kind \in {"Healthy", "NoServices"})
               => (Ended /\ sleeps = polls - 1)
          /\ (Polled /\ Ended)
               => (status.services_healthy
                     <=> (last_result.ok /\ last_result.kind = "Healthy")))
    /\ [][Ended => (polls' = polls /\ sleeps' = sleeps)]_vars

\* the third poll finds no services
C9_Witness ==
    /\ Ended
    /\ polls = 3
    /\ last_result.ok
    /\ last_result.kind = "NoServices"
    /\ status.services_healthy = FALSE

\* C10: a poll whose status query fails (the transport, the command, or the
\* parse of its output) ends the loop on any attempt: no wait and no poll
\* follows, services_healthy is false and the message carries the error.
C10_PollError ==
    /\ []((Polled /\ ~last_status.ok) =>
            /\ Ended
            /\ sleeps = polls - 1
            /\ status.services_healthy = FALSE
            /\ status.message.kind = "Error checking service health"
            /\ status.message.error = last_status.err
            /\ last_status.err \in {"Executor", "CommandError(docker-compose ps)",
                                    "Output(JsonError)"})
    /\ [][(Polled /\ ~last_status.ok) => (polls' = polls /\ sleeps' = sleeps)]_vars

\* the seventh poll returns output that does not parse
C10_Witness ==
    /\ Ended
    /\ polls = 7
    /\ ~last_status.ok
    /\ last_status.err = "Output(JsonError)"
    /\ status.message.error = "Output(JsonError)"

-----------------------------------------------------------------------------
(* Properties of the pipeline (SpecDeploy) *)

LastStep == trace[Len(trace)]

\* C4: the steps run in the order Prepare Environment, Sync Files, Configure
\* Firewall, Deploy Services; a step starts only when the one before it has
\* returned success; when a step returns an error deploy returns that error,
\* and after deploy has returned no step starts and no remote operation is
\* issued.
C4_StepOrder ==
    /\ [](/\ Len(trace) <= 4
          /\ \A i \in 1..Len(trace) :
                trace[i].step = <<"Preparing environment", "Synchronizing files",
                                  "Configuring firewall", "Deploying services">>[i]
          /\ \A i \in 1..(Len(trace) - 1) : trace[i].outcome = "ok"
          /\ \A i \in 1..Len(ops) : ops[i].step = LastStep.step
          /\ (trace # <<>> /\ LastStep.outcome = "err") =>
                /\ pc = "done"
                /\ result.kind = "err"
                /\ result.step = LastStep.step
                /\ events[Len(events)] = Event("StepFailed", LastStep.step, result.error)
          /\ result.kind = "err" => (trace # <<>> /\ LastStep.outcome = "err")
          /\ result.kind = "ok" =>
                (Len(trace) = 4 /\ \A i \in 1..4 : trace[i].outcome = "ok"))
    /\ [][(Len(trace') > Len(trace) => (trace = <<>> \/ LastStep.outcome = "ok"))
          /\ (result.kind # "none" => (ops' = ops /\ trace' = trace))]_vars

\* the file synchronisation failed after issuing remote operations: deploy
\* returned its error and the firewall step never ran
C4_Witness ==
    /\ pc = "done"
    /\ Len(trace) = 2
    /\ LastStep.outcome = "err"
    /\ result = ErrResult("Synchronizing files", result.error)
    /\ ops # <<>>

-----------------------------------------------------------------------------
(* Properties of the connection (SpecSsh) *)

\* the keys the known-hosts file stores for host h, read off its lines
StoredKeys(h) ==
    { known_hosts[i].key :
        i \in { j \in 1..Len(known_hosts) :
                  /\ known_hosts[j].kind = "entry"
                  /\ \E n \in 1..Len(known_hosts[j].hosts) :
                        known_hosts[j].hosts[n] = h } }

\* the connections in which the server presented a key
KeyChecked == { i \in 1..Len(connections) : connections[i].verdict # "unreached" }

C2_MismatchIsHardStop ==
    /\ \A i \in 1..Len(connections) :
          connections[i].verdict = "rejected" => i = Len(connections)
    /\ (ssh_pc = "done" /\ \E i \in 1..Len(connections) :
                               connections[i].verdict = "rejected")
          => ssh_result.kind = "err"

-----------------------------------------------------------------------------
(* Transport errors *)

\* C11 as claimed: a step of deploy in which an operation failed in the
\* transport has ended in an error, and deploy has returned that error
C11_TransportFatal ==
    \A i \in 1..Len(trace) :
        trace[i].transport # {} => (trace[i].outcome = "err" /\ result.kind = "err")

\* the queries whose transport error the caller absorbs: the checksum query
\* of file sync, the image listing before the prune, the status query of the
\* health loop
AbsorbedQueries ==
    {"sha256sum", "docker-compose images --format json", "docker-compose ps --format json"}

\* C11: a step of deploy in which an operation other than an absorbed query
\* failed in the transport has ended in an error, and deploy has returned
\* that error; a transport error of the status query of the health loop
\* ends the step with services_healthy false and the error in the message.
C11_TransportFatalUnlessAbsorbed ==
    /\ \A i \in 1..Len(trace) :
          trace[i].transport \ AbsorbedQueries # {}
              => (trace[i].outcome = "err" /\ result.kind = "err")
    /\ \A i \in 1..Len(trace) :
          "docker-compose ps --format json" \in trace[i].transport
              => /\ pc = "done"
                 /\ ~status.services_healthy
                 /\ status.message.kind = "Error checking service health"

\* the checksum query of Sync Files fails in the transport, the file is
\* uploaded, and the upload fails in the transport: the step is aborted
C11_Witness ==
    /\ Len(trace) = 2
    /\ trace[2].transport = {"sha256sum", "upload"}
    /\ trace[2].outcome = "err"
    /\ result.kind = "err"

-----------------------------------------------------------------------------
(* destroy *)

\* the operations destroy has issued with command cmd
Issued(cmd) == { i \in 1..Len(ops) : ops[i].op.cmd = cmd }
DownIssued == { i \in 1..Len(ops) : IsComposeDown(ops[i].op.cmd) }

\* the status query of destroy found a running service
FoundRunning ==
    /\ pc \notin {"destroy", "idle"}
    /\ last_status.ok
    /\ \E i \in 1..Len(last_status.services) : last_status.services[i].state = "running"

\* C12: when destroy is called without force and its status query finds a
\* running service, destroy returns an error at once, and has issued neither
\* the compose down command nor the removal of the remote project directory.
C12_RunningWithoutForce ==
    (FoundRunning /\ ~args.force)
        => /\ pc = "done"
           /\ result.kind = "err"
           /\ DownIssued = {}
           /\ Issued("rm -rf") = {}

\* remove_volumes is set, a service is running, force is not given: the
\* call is refused with the message that asks for --force
C12_Witness ==
    /\ FoundRunning
    /\ ~args.force
    /\ args.remove_volumes
    /\ result.error = "Deployment(Services are still running)"

\* C13: the removal of the remote project directory is issued only with
\* remove_volumes set and only after a compose down that succeeded; and a
\* destroy with remove_volumes set whose compose down succeeded has issued
\* the removal by the time it returns.
C13_RemovalIffVolumes ==
    /\ \A j \in Issued("rm -rf") :
          /\ args.remove_volumes
          /\ \E i \in DownIssued : i < j /\ ops[i].op.rep = "ok"
    /\ (pc = "done" /\ args.remove_volumes
          /\ \E i \in DownIssued : ops[i].op.rep = "ok")
          => Issued("rm -rf") # {}

\* volumes but not images are removed: the directory is removed as well
C13_Witness ==
    /\ pc = "done"
    /\ args.remove_volumes
    /\ ~args.remove_images
    /\ Issued("rm -rf") # {}
    /\ result.kind = "ok"

\* a destroy without remove_volumes returns Ok and has only stopped the services
C13_WitnessKept ==
    /\ pc = "done"
    /\ ~args.remove_volumes
    /\ DownIssued # {}
    /\ result.kind = "ok"

\* C14 as claimed: when the removal of the remote project directory exits
\* with a nonzero status, the status destroy returns says that the project
\* directory could not be removed
C14_FailureInMessage ==
    (pc = "done" /\ result.kind = "ok"
        /\ \E j \in Issued("rm -rf") : ops[j].op.rep = "nonzero")
        => status.message.kind =
              "Deployment destroyed, but failed to remove project directory"

\* C15 as claimed: once compose down has succeeded, a removal of the remote
\* project directory that fails (nonzero exit, or transport error) does not
\* make destroy return an error
C15_RemovalNeverFatal ==
    (pc = "done" /\ \E j \in Issued("rm -rf") : ops[j].op.rep # "ok")
        => result.kind = "ok"

-----------------------------------------------------------------------------
(* get_status *)

\* the remote commands that only read the remote state
ReadOnlyCommands ==
    {"cat /etc/os-release", "test -d", "docker-compose ps --format json"}

\* C16: the status flow classifies the health of the services at most once,
\* exactly once when it returns a status, never waits, ends with the
\* classification whatever it is, and issues only commands that read the
\* remote state: no upload, no mkdir, no rm, no compose up or down, no
\* firewall command.
C16_StatusOnceReadOnly ==
    /\ polls <= 1
    /\ sleeps = 0
    /\ polls = 1 => pc = "done"
    /\ (pc = "done" /\ result.kind = "ok") => polls = 1
    /\ \A i \in 1..Len(ops) : ops[i].op.cmd \in ReadOnlyCommands

\* a project whose services are still starting: one classification, and
\* the status is returned with the services listed as starting
C16_Witness ==
    /\ pc = "done"
    /\ result.kind = "ok"
    /\ last_result.kind = "Starting"
    /\ polls = 1
    /\ status.message.kind = "Services still starting"

-----------------------------------------------------------------------------
(* File synchronisation *)

\* the call of FileSync::sync_files whose operations `ops` holds
CurrentCall == IF pc = "sync_pair" THEN Len(sync_returns) + 1 ELSE Len(sync_returns)

\* that call directly follows a call that returned Ok
AfterSuccessfulCall == CurrentCall >= 2 /\ sync_returns[CurrentCall - 1].kind = "ok"

CallReturned == pc # "sync_pair" /\ CurrentCall >= 1

AllPlanFiles == PlanFiles(sync_plan, local_fs)

\* another file of the plan with another content is synced to the same remote path
Collides(f) ==
    \E g \in AllPlanFiles : g.remote = f.remote /\ local_fs[g.local] # local_fs[f.local]

Listed(list) == { list[i] : i \in 1..Len(list) }

C19_UploadFailure ==
    \A k \in 1..Len(sync_log) :
        sync_log[k].action = "failed"
            => /\ k = Len(sync_log)
               /\ CallReturned
               /\ sync_returns[CurrentCall].kind = "err"
               /\ sync_returns[CurrentCall].path = sync_log[k].local
               /\ sync_returns[CurrentCall].status = sync_status

-----------------------------------------------------------------------------
(* The sync plan *)

\* the references of the project that lie in the project directory below
\* its top-level component c and exist locally
ExistingReferencesInto(c) ==
    { i \in 1..Len(config.local_references) :
        LET path == config.local_references[i]
        IN /\ Len(path) > Len(ProjectDir)
           /\ SubSeq(path, 1, Len(ProjectDir) + 1) = Append(ProjectDir, c)
           /\ \E p \in DOMAIN local_fs :
                 Len(p) >= Len(path) /\ SubSeq(p, 1, Len(path)) = path }

\* the reference pairs of the plan for the top-level component c
ReferencePairsFor(c) ==
    { k \in 1..Len(sync_plan.reference_files) :
        sync_plan.reference_files[k].local_path = Append(ProjectDir, c) }

TopLevelNames == {"nginx.conf", "conf", "data", "etc", "ssl", "docker-compose.yml"}

\* the references of the project that lie in the project directory below
\* its top-level component c, whether they exist locally or not
ReferencesInto(c) ==
    { i \in 1..Len(config.local_references) :
        LET path == config.local_references[i]
        IN /\ Len(path) > Len(ProjectDir)
           /\ SubSeq(path, 1, Len(ProjectDir) + 1) = Append(ProjectDir, c) }

\* C20 as stated: no top-level component of the project directory has two
\* reference pairs in the plan, a component has exactly one pair when any
\* number of references lie in it, and none when no reference does (so a
\* reference outside the project directory adds no pair).
C20_OnePairPerReferencedTopLevel ==
    pc = "planned"
        => \A c \in TopLevelNames :
              Cardinality(ReferencePairsFor(c))
                 = IF ReferencesInto(c) # {} THEN 1 ELSE 0

\* C20, amended: in the plan built by the Sync Files step every reference pair is a
\* top-level component of the project directory, synced to the component of
\* the same name of the remote directory; no component has two pairs; a
\* component has one pair exactly when some reference that exists locally
\* lies in it, however many do; a reference outside the project directory
\* adds no pair.
C20_OnePairPerTopLevel ==
    pc = "planned"
        => /\ \A k \in 1..Len(sync_plan.reference_files) :
                 LET pair == sync_plan.reference_files[k]
                 IN /\ Len(pair.local_path) = Len(ProjectDir) + 1
                    /\ SubSeq(pair.local_path, 1, Len(ProjectDir)) = ProjectDir
                    /\ pair.remote_path
                          = Append(RemoteRoot, pair.local_path[Len(pair.local_path)])
                    /\ ReferencePairsFor(pair.local_path[Len(pair.local_path)]) = {k}
           /\ \A c \in TopLevelNames :
                 Cardinality(ReferencePairsFor(c))
                    = IF ExistingReferencesInto(c) # {} THEN 1 ELSE 0

\* three references: two into ./conf at different depths and one outside
\* the project; the plan has the one pair ./conf
C20_Witness ==
    /\ pc = "planned"
    /\ config.local_references
          = << <<"proj", "conf", "app.conf">>, <<"etc", "ssl", "ca.pem">>,
               <<"proj", "conf", "tls", "cert.pem">> >>
    /\ Len(sync_plan.reference_files) = 1
    /\ sync_plan.reference_files[1].local_path = <<"proj", "conf">>

-----------------------------------------------------------------------------
(* The firewall *)

\* the positions of a command in the operations of the last call
Positions(cmd) == { i \in 1..Len(ops) : ops[i].cmd = cmd }

\* the positions of `ufw allow 22/tcp` in the operations of the last call
AllowSsh == { i \in 1..Len(ops) : ops[i].cmd = "ufw allow" /\ ops[i].port = 22 }

\* the first call returned Ok and every rule it added is a rule of the
\* firewall after it
FirstCallTookEffect ==
    /\ fw_runs[1].err = ""
    /\ fw_runs[1].added \subseteq fw_runs[1].after

\* C21: when configure_ports has run twice with the same desired rules, the
\* first call returned Ok and every add-rule command of it took effect, the
\* second call issued no add-rule command.
C21_ConfigureIdempotent ==
    (pc = "done" /\ FirstCallTookEffect) => AddRuleOps(ops) = {}

\* the first call added rules, the second read the rules and returned Ok
\* without adding any
C21_Witness ==
    /\ pc = "done"
    /\ FirstCallTookEffect
    /\ fw_runs[1].added # {}
    /\ fw_runs[2].err = ""
    /\ Positions("ufw status numbered") # {}
    /\ AddRuleOps(ops) = {}

\* the desired rules of protocol "both", as their ports
BothPorts ==
    { PortConfigs(config.exposed_ports)[i].port :
        i \in { j \in 1..Len(config.exposed_ports) :
                  PortConfigs(config.exposed_ports)[j].protocol = "Both" } }

\* C22: in a call of configure_ports no rule that the listing showed active
\* is added again, and in a call that returned Ok the tcp rule of a "both"
\* port is added iff the listing did not show it, and so is its udp rule.
C22_BothCheckedIndependently ==
    pc \in {"fw_second", "done"}
        => LET run == fw_runs[Len(fw_runs)]
           IN /\ run.added \cap run.current_ports = {}
              /\ run.err = ""
                    => \A port \in BothPorts : \A proto \in {"tcp", "udp"} :
                          Rule(port, proto) \in run.added
                             <=> Rule(port, proto) \notin run.current_ports

\* C23: in every call of ensure_ufw, when `ufw status` reports the firewall
\* inactive `ufw allow 22/tcp` is issued, and before any `ufw enable`; the
\* enable command is never issued without the allow command before it; when
\* the status reports it active neither is issued.
C23_AllowSshBeforeEnable ==
    pc \in {"fw_second", "done"}
        => /\ \A s \in Positions("ufw status") :
                 /\ ops[s].rep = "inactive"
                       => /\ AllowSsh # {}
                          /\ \A e \in Positions("echo 'y' | ufw enable") :
                                \E a \in AllowSsh : a < e
                 /\ ops[s].rep = "active"
                       => AllowSsh = {} /\ Positions("echo 'y' | ufw enable") = {}
           /\ \A e \in Positions("echo 'y' | ufw enable") : \E a \in AllowSsh : a < e

\* an inactive firewall: the management port is allowed, then the firewall
\* enabled
C23_Witness ==
    /\ pc = "fw_second"
    /\ \E s \in Positions("ufw status") : ops[s].rep = "inactive"
    /\ \E a \in AllowSsh : \E e \in Positions("echo 'y' | ufw enable") :
          a < e /\ ops[a].rep = "ok" /\ ops[e].rep = "ok"
    /\ fw_active

-----------------------------------------------------------------------------
(* Best-effort operations *)

\* C24: the Configure Firewall step never returns an error in a run whose
\* port probe (`nc -z -v localhost <port>`) failed in the transport: what
\* goes wrong while a port is verified is recorded in the status only, and
\* the pipeline goes on to Deploy Services.
C24_VerificationNeverFatal ==
    \A i \in 1..Len(trace) :
        (trace[i].step = FIREWALL /\ "nc -z -v localhost" \in trace[i].transport)
            => trace[i].outcome = "ok"

\* C25: the image prune of compose_up is best-effort: whatever the prune
\* command answers, Deploy Services goes on to `docker-compose pull` (and
\* from there to `up`), so no run of the step ends at the prune command.
C25_PruneBestEffort ==
    \A i \in 1..Len(ops) :
        (ops[i].step = SERVICES /\ ops[i].op.cmd = "docker image prune -f")
            => \E j \in (i + 1)..Len(ops) : ops[j].op.cmd = "docker-compose pull"

-----------------------------------------------------------------------------
(* The progress channel and the up command *)

\* the events deploy has sent so far
SentEvents == SubSeq(UpEvents, 1, up_sent)

\* C26: with the UI task running or returned (not dropped), the queue never
\* holds more than its capacity, the events received followed by the events
\* queued are the events sent, in the order sent, and once the UI task has
\* returned every event sent has been received.
C26_EventsDeliveredInOrder ==
    ui_pc \in {"running", "exited"}
        => /\ Len(chan) <= PROGRESS_CHANNEL_CAPACITY
           /\ ui_received \o chan = SentEvents
           /\ ui_pc = "exited" => (chan = <<>> /\ ui_received = SentEvents)

\* the producer waits on a full queue while the UI task runs
C26_Witness ==
    /\ ui_pc = "running"
    /\ up_pc = "deploy"
    /\ Len(chan) = PROGRESS_CHANNEL_CAPACITY
    /\ up_sent < Len(UpEvents)
    /\ ~send_ready(chan, TRUE)

\* the UI task returned after a failed step, all events received
C26_WitnessFailedStep ==
    /\ ui_pc = "exited"
    /\ up_input.failed_step = FIREWALL
    /\ ui_received = UpEvents

C29_ExitCode ==
    up_pc = "done"
        => (exit_code(up_result) # 0
              <=> \/ up_input.failed_step # ""
                  \/ (~up_input.services_healthy /\ ~up_input.no_health_check))

\* unhealthy services with --no-health-check: success
C29_Witness ==
    /\ up_pc = "done"
    /\ up_input.failed_step = ""
    /\ ~up_input.services_healthy
    /\ up_input.no_health_check
    /\ exit_code(up_result) = 0

-----------------------------------------------------------------------------
(* Step events *)

\* the positions of the StepStarted events sent so far
StartedAt == { i \in 1..Len(events) : events[i].type = "StepStarted" }

\* C28: when deploy, destroy or get_status has returned an error after a
\* StepStarted event, the last event it sent is the StepFailed event of the
\* step it started last.
C28_StepFailedBeforeError ==
    (result.kind = "err" /\ StartedAt # {})
        => LET started == events[CHOOSE i \in StartedAt : \A j \in StartedAt : j <= i]
               last == events[Len(events)]
           IN last.type = "StepFailed" /\ last.step = started.step

-----------------------------------------------------------------------------
(* The file-transfer session *)

\* C30: over the life of a connection at most one SFTP session is created,
\* whatever the number and the interleaving of the uploads, and every upload
\* writes through that one session.
C30_OneSftpSession ==
    /\ sftp_created <= 1
    /\ \A t \in DOMAIN upload_pc : upload_pc[t].used \in {0, 1}

-----------------------------------------------------------------------------
(* The health-check progress events *)

\* C36: in every HealthCheckAttempt(attempt, total) event the health loop
\* sends, the attempt number lies between 1 and the total it is sent with.
C36_AttemptWithinTotal ==
    \A i \in 1..Len(health_events) :
        health_events[i].type = "HealthCheckAttempt"
            => /\ 1 <= health_events[i].attempt
               /\ health_events[i].attempt <= health_events[i].total

-----------------------------------------------------------------------------
(* The --no-health-check flag *)

\* C31: when the up command is run with --no-health-check, the deploy run
\* polls the health of the services not once and waits for no health result
\* after the services were started.
C31_NoHealthCheckNoPoll ==
    up_input.no_health_check
        => /\ polls = 0
           /\ sleeps = 0
           /\ \A i \in 1..Len(ops) :
                  ops[i].op.cmd = "docker-compose ps --format json"
                      => i <= Len(LoopEntryOps)

-----------------------------------------------------------------------------
(* Failing firewall commands *)

\* the commands configure_ports issues to change the firewall
FirewallChanges ==
    {"apt-get update && apt-get install -y ufw", "ufw allow", "echo 'y' | ufw enable"}

\* C32: when a command configure_ports issued to change the firewall (the
\* installation, the rule for the management port, the enabling, the rule
\* of a port) came back with a nonzero exit status, configure_ports
\* returned an error.
C32_NonzeroExitFatal ==
    (fw_runs # <<>>
       /\ \E i \in 1..Len(ops) :
              ops[i].cmd \in FirewallChanges /\ ops[i].rep = "nonzero")
        => fw_runs[Len(fw_runs)].err # ""

-----------------------------------------------------------------------------
(* The port of the session *)

\* C33: whenever a call of configure_ports has issued the command that
\* enables the firewall, it has issued before it the command that allows
\* the tcp port of the SSH session, the port of the target.
C33_SessionPortAllowedBeforeEnable ==
    \A j \in Positions("echo 'y' | ufw enable") :
        \E i \in 1..(j - 1) :
            /\ ops[i].cmd = "ufw allow"
            /\ ops[i].port = ssh_target.port
            /\ ops[i].proto = "tcp"

-----------------------------------------------------------------------------
(* The identity the trust store is asked about *)

\* C34: in every connection whose server presented a key, when the
\* known-hosts file stores keys under the host the operator addressed and
\* the presented key is none of them, the connection is rejected.
C34_LookupByAddressedHost ==
    \A i \in KeyChecked :
        (StoredKeys(addr) # {} /\ connections[i].presented \notin StoredKeys(addr))
            => connections[i].verdict = "rejected"

-----------------------------------------------------------------------------
(* The exit status of a remote command *)

\* the exit statuses the remote host reported on the channel
ReportedExitStatuses ==
    { channel_msgs[i].exit_status :
        i \in { j \in 1..exec_pos : channel_msgs[j].type = "ExitStatus" } }

\* C35: when execute_command_internal has returned a result that counts as
\* a success (exit code 0), the remote host reported the exit status 0 on
\* the channel.
C35_SuccessOnlyOnReportedZero ==
    (exec_result.kind = "ok" /\ is_success(exec_result))
        => 0 \in ReportedExitStatuses

-----------------------------------------------------------------------------
(* The ports of the rules *)

\* the protocols of the rules of a port mapping: tcp when it names none
ProtocolsOf(mapping) ==
    IF mapping.protocol \in {"none", "tcp"} THEN {"tcp"}
    ELSE IF mapping.protocol = "udp" THEN {"udp"}
    ELSE {"tcp", "udp"}

\* C37: every rule configure_ports adds for the exposed ports opens the
\* published (host-side) port of one of the port mappings, with a protocol
\* of that mapping.
C37_RuleOpensPublishedPort ==
    \A i \in AddRuleOps(ops) :
        \E k \in 1..Len(config.exposed_ports) :
            /\ ops[i].port = config.exposed_ports[k].published
            /\ ops[i].proto \in ProtocolsOf(config.exposed_ports[k])

-----------------------------------------------------------------------------
(* References at the top level of the project *)

\* the last call of FileSync::sync_files has returned, and the remote host
\* answered every command of it: the directories were made, each checksum
\* query gave a digest or found no file, each upload succeeded
AnsweredWell ==
    /\ sync_returns # <<>>
    /\ pc \in {"sync_call", "done"}
    /\ \A i \in 1..Len(ops) :
          /\ ops[i].op.cmd \in {"mkdir -p", "upload"} => ops[i].op.rep = "ok"
          /\ ops[i].op.cmd = "sha256sum" => ops[i].op.rep \in Hashes \cup {"nonzero"}

\* the local files under the top-level component of a reference
FilesUnderTopLevel(reference) ==
    { p \in DOMAIN local_fs :
        starts_with(p, join(ProjectDir, strip_prefix(reference, ProjectDir)[1])) }

\* C38: when a call of sync_files whose commands the remote host all
\* answered has returned, it returned Ok, and every file under the top-level
\* component of every existing in-project reference, a directory or a
\* regular file, is on the remote host with its local content.
C38_TopLevelFileOrDirectory ==
    AnsweredWell
        => /\ sync_returns[Len(sync_returns)].kind = "ok"
           /\ \A k \in 1..Len(config.local_references) :
                 \A p \in FilesUnderTopLevel(config.local_references[k]) :
                     remote_fs[RemoteOf(p)] = local_fs[p]

\* the same, for the references whose top-level component is a directory
C38_TopLevelDirectory ==
    (AnsweredWell
       /\ \A k \in 1..Len(config.local_references) :
              ~is_file(local_fs, join(ProjectDir,
                                      strip_prefix(config.local_references[k],
                                                   ProjectDir)[1])))
        => /\ sync_returns[Len(sync_returns)].kind = "ok"
           /\ \A k \in 1..Len(config.local_references) :
                 \A p \in FilesUnderTopLevel(config.local_references[k]) :
                     remote_fs[RemoteOf(p)] = local_fs[p]

-----------------------------------------------------------------------------
(* The remote working directory *)

\* the commands that go through the compose tool
IsComposeCommand(cmd) == cmd = "docker-compose ps --format json" \/ IsComposeDown(cmd)

\* the start of the call a command at position i belongs to
CallOf(i) == CHOOSE c \in CallStarts : c <= i /\ \A d \in CallStarts : d <= i => d <= c

\* the commands issued after the directory was removed
AfterRemoval == { i \in 1..Len(ops) : \E j \in Removals : j < i }

\* C39: every compose command is issued after a `test -d` of the remote
\* working directory that the same call issued and that succeeded; and when
\* a destroy has removed the directory, a following destroy or status
\* issues no compose command and returns an error, which is the
\* working-directory error whenever the transport carried its commands.
C39_WorkdirCheckedFirst ==
    /\ \A i \in 1..Len(ops) :
          IsComposeCommand(ops[i].op.cmd)
              => \E j \in CallOf(i)..(i - 1) :
                    ops[j].op.cmd = "test -d" /\ ops[j].op.rep = "ok"
    /\ (Removals # {} /\ AfterRemoval # {})
          => /\ \A i \in AfterRemoval : ~IsComposeCommand(ops[i].op.cmd)
             /\ pc = "done"
                   => /\ result.kind = "err"
                      /\ (\A i \in AfterRemoval : ops[i].op.rep # "err")
                            => result.error = "DockerManager(WorkingDirError)"

\* a destroy removed the directory, and the status command run after it
\* returned the working-directory error
C39_Witness ==
    /\ Removals # {}
    /\ pc = "done"
    /\ result = ErrResult(STATUS, "DockerManager(WorkingDirError)")
    /\ \E i \in AfterRemoval : ops[i].op.cmd = "test -d" /\ ops[i].op.rep = "nonzero"

\* the same, for a destroy run after it
C39_WitnessDestroy ==
    /\ Removals # {}
    /\ pc = "done"
    /\ result = ErrResult(DESTROY, "DockerManager(WorkingDirError)")
    /\ \E i \in AfterRemoval : ops[i].op.cmd = "test -d" /\ ops[i].op.rep = "nonzero"

-----------------------------------------------------------------------------
(* The files of the runtime manager *)

\* C40: the manager get_status has built is bound to the compose files and
\* env files (the generated .env.dcd among them when it exists) that deploy
\* and destroy bind theirs to for the same project.
C40_StatusBindsSameFiles ==
    manager_files # NoManagerFiles
        => /\ manager_files = deploy_services_files(config, dcd_exists)
           /\ manager_files = destroy_files(config, dcd_exists)

====
